---- MODULE Spec2Model ----
(***************************************************************************)
(* Pinnothera: the SNS/SQS reconciliation engine of src/src/main.rs.       *)
(*                                                                         *)
(* One run of the program is the task tree main -> one task per queue      *)
(* group -> one task per topic of the group.  Every remote call (one       *)
(* .send().await) is one atomic step: the request is served by the account *)
(* and the code runs on to its next await.  The account (topics, queues,   *)
(* subscriptions) outlives a run, so a second run of the same program sees *)
(* what the first one left.                                                *)
(***************************************************************************)
EXTENDS Integers, Sequences, FiniteSets, Bags, TLC

\* ------------------------------------------------------------------ bounds

\* Injected remote faults (errors, omitted fields) per behaviour.
MaxFaults == 1
\* Topics per group where the sums of outcomes are examined (SpecSums).
MaxLeaves == 300

\* ------------------------------------------------------- program constants

\* u8::MAX, the width of Result<u8, u8> and of the sums.
U8Max == 255
\* Exit status of a Rust process whose main thread panics.
PanicExit == 101
\* ExitCode::from(2): the configuration could not be parsed or acquired.
ConfigErrorExit == 2
\* ExitCode::from(3): no usable AWS client configuration.
ClientConfigErrorExit == 3

\* Option<String>: None, and Some(v) for every text v, the text <None>
\* included.
None == [some |-> FALSE]
Some(v) == [some |-> TRUE, val |-> v]

\* A cell not yet set, a local not yet bound, a field a request does not
\* carry.  The names, URLs, ARNs and documents held in their place are
\* never this text.
Unset == "<unset>"

\* ------------------------------------------------------------ EnvName

EnvNames == {"QA", "Dev", "Prod", "Local", "Unknown"}

\* The text of --env-name is a sequence of characters; an ASCII character
\* is written as it is, any other by its code point.
Chars(str) == [k \in 1..Len(str) |-> SubSeq(str, k, k)]

\* The ASCII letters, by position.
LowerLetters == "abcdefghijklmnopqrstuvwxyz"
UpperLetters == "ABCDEFGHIJKLMNOPQRSTUVWXYZ"

\* The characters outside ASCII that have an upper-case mapping, each with
\* the characters of it: the Uppercase_Mapping of the Unicode character
\* database (the simple mappings and the unconditional ones of
\* SpecialCasing), as the tables of core::unicode hold it.
UnicodeUpper ==
    { <<"U+00B5", <<"U+039C">>>>, <<"U+00DF", <<"S", "S">>>>, <<"U+00E0", <<"U+00C0">>>>,
      <<"U+00E1", <<"U+00C1">>>>, <<"U+00E2", <<"U+00C2">>>>, <<"U+00E3", <<"U+00C3">>>>,
      <<"U+00E4", <<"U+00C4">>>>, <<"U+00E5", <<"U+00C5">>>>, <<"U+00E6", <<"U+00C6">>>>,
      <<"U+00E7", <<"U+00C7">>>>, <<"U+00E8", <<"U+00C8">>>>, <<"U+00E9", <<"U+00C9">>>>,
      <<"U+00EA", <<"U+00CA">>>>, <<"U+00EB", <<"U+00CB">>>>, <<"U+00EC", <<"U+00CC">>>>,
      <<"U+00ED", <<"U+00CD">>>>, <<"U+00EE", <<"U+00CE">>>>, <<"U+00EF", <<"U+00CF">>>>,
      <<"U+00F0", <<"U+00D0">>>>, <<"U+00F1", <<"U+00D1">>>>, <<"U+00F2", <<"U+00D2">>>>,
      <<"U+00F3", <<"U+00D3">>>>, <<"U+00F4", <<"U+00D4">>>>, <<"U+00F5", <<"U+00D5">>>>,
      <<"U+00F6", <<"U+00D6">>>>, <<"U+00F8", <<"U+00D8">>>>, <<"U+00F9", <<"U+00D9">>>>,
      <<"U+00FA", <<"U+00DA">>>>, <<"U+00FB", <<"U+00DB">>>>, <<"U+00FC", <<"U+00DC">>>>,
      <<"U+00FD", <<"U+00DD">>>>, <<"U+00FE", <<"U+00DE">>>>, <<"U+00FF", <<"U+0178">>>>,
      <<"U+0101", <<"U+0100">>>>, <<"U+0103", <<"U+0102">>>>, <<"U+0105", <<"U+0104">>>>,
      <<"U+0107", <<"U+0106">>>>, <<"U+0109", <<"U+0108">>>>, <<"U+010B", <<"U+010A">>>>,
      <<"U+010D", <<"U+010C">>>>, <<"U+010F", <<"U+010E">>>>, <<"U+0111", <<"U+0110">>>>,
      <<"U+0113", <<"U+0112">>>>, <<"U+0115", <<"U+0114">>>>, <<"U+0117", <<"U+0116">>>>,
      <<"U+0119", <<"U+0118">>>>, <<"U+011B", <<"U+011A">>>>, <<"U+011D", <<"U+011C">>>>,
      <<"U+011F", <<"U+011E">>>>, <<"U+0121", <<"U+0120">>>>, <<"U+0123", <<"U+0122">>>>,
      <<"U+0125", <<"U+0124">>>>, <<"U+0127", <<"U+0126">>>>, <<"U+0129", <<"U+0128">>>>,
      <<"U+012B", <<"U+012A">>>>, <<"U+012D", <<"U+012C">>>>, <<"U+012F", <<"U+012E">>>>,
      <<"U+0131", <<"I">>>>, <<"U+0133", <<"U+0132">>>>, <<"U+0135", <<"U+0134">>>>,
      <<"U+0137", <<"U+0136">>>>, <<"U+013A", <<"U+0139">>>>, <<"U+013C", <<"U+013B">>>>,
      <<"U+013E", <<"U+013D">>>>, <<"U+0140", <<"U+013F">>>>, <<"U+0142", <<"U+0141">>>>,
      <<"U+0144", <<"U+0143">>>>, <<"U+0146", <<"U+0145">>>>, <<"U+0148", <<"U+0147">>>>,
      <<"U+0149", <<"U+02BC", "N">>>>, <<"U+014B", <<"U+014A">>>>, <<"U+014D", <<"U+014C">>>>,
      <<"U+014F", <<"U+014E">>>>, <<"U+0151", <<"U+0150">>>>, <<"U+0153", <<"U+0152">>>>,
      <<"U+0155", <<"U+0154">>>>, <<"U+0157", <<"U+0156">>>>, <<"U+0159", <<"U+0158">>>>,
      <<"U+015B", <<"U+015A">>>>, <<"U+015D", <<"U+015C">>>>, <<"U+015F", <<"U+015E">>>>,
      <<"U+0161", <<"U+0160">>>>, <<"U+0163", <<"U+0162">>>>, <<"U+0165", <<"U+0164">>>>,
      <<"U+0167", <<"U+0166">>>>, <<"U+0169", <<"U+0168">>>>, <<"U+016B", <<"U+016A">>>>,
      <<"U+016D", <<"U+016C">>>>, <<"U+016F", <<"U+016E">>>>, <<"U+0171", <<"U+0170">>>>,
      <<"U+0173", <<"U+0172">>>>, <<"U+0175", <<"U+0174">>>>, <<"U+0177", <<"U+0176">>>>,
      <<"U+017A", <<"U+0179">>>>, <<"U+017C", <<"U+017B">>>>, <<"U+017E", <<"U+017D">>>>,
      <<"U+017F", <<"S">>>>, <<"U+0180", <<"U+0243">>>>, <<"U+0183", <<"U+0182">>>>,
      <<"U+0185", <<"U+0184">>>>, <<"U+0188", <<"U+0187">>>>, <<"U+018C", <<"U+018B">>>>,
      <<"U+0192", <<"U+0191">>>>, <<"U+0195", <<"U+01F6">>>>, <<"U+0199", <<"U+0198">>>>,
      <<"U+019A", <<"U+023D">>>>, <<"U+019B", <<"U+A7DC">>>>, <<"U+019E", <<"U+0220">>>>,
      <<"U+01A1", <<"U+01A0">>>>, <<"U+01A3", <<"U+01A2">>>>, <<"U+01A5", <<"U+01A4">>>>,
      <<"U+01A8", <<"U+01A7">>>>, <<"U+01AD", <<"U+01AC">>>>, <<"U+01B0", <<"U+01AF">>>>,
      <<"U+01B4", <<"U+01B3">>>>, <<"U+01B6", <<"U+01B5">>>>, <<"U+01B9", <<"U+01B8">>>>,
      <<"U+01BD", <<"U+01BC">>>>, <<"U+01BF", <<"U+01F7">>>>, <<"U+01C5", <<"U+01C4">>>>,
      <<"U+01C6", <<"U+01C4">>>>, <<"U+01C8", <<"U+01C7">>>>, <<"U+01C9", <<"U+01C7">>>>,
      <<"U+01CB", <<"U+01CA">>>>, <<"U+01CC", <<"U+01CA">>>>, <<"U+01CE", <<"U+01CD">>>>,
      <<"U+01D0", <<"U+01CF">>>>, <<"U+01D2", <<"U+01D1">>>>, <<"U+01D4", <<"U+01D3">>>>,
      <<"U+01D6", <<"U+01D5">>>>, <<"U+01D8", <<"U+01D7">>>>, <<"U+01DA", <<"U+01D9">>>>,
      <<"U+01DC", <<"U+01DB">>>>, <<"U+01DD", <<"U+018E">>>>, <<"U+01DF", <<"U+01DE">>>>,
      <<"U+01E1", <<"U+01E0">>>>, <<"U+01E3", <<"U+01E2">>>>, <<"U+01E5", <<"U+01E4">>>>,
      <<"U+01E7", <<"U+01E6">>>>, <<"U+01E9", <<"U+01E8">>>>, <<"U+01EB", <<"U+01EA">>>>,
      <<"U+01ED", <<"U+01EC">>>>, <<"U+01EF", <<"U+01EE">>>>, <<"U+01F0", <<"J", "U+030C">>>>,
      <<"U+01F2", <<"U+01F1">>>>, <<"U+01F3", <<"U+01F1">>>>, <<"U+01F5", <<"U+01F4">>>>,
      <<"U+01F9", <<"U+01F8">>>>, <<"U+01FB", <<"U+01FA">>>>, <<"U+01FD", <<"U+01FC">>>>,
      <<"U+01FF", <<"U+01FE">>>>, <<"U+0201", <<"U+0200">>>>, <<"U+0203", <<"U+0202">>>>,
      <<"U+0205", <<"U+0204">>>>, <<"U+0207", <<"U+0206">>>>, <<"U+0209", <<"U+0208">>>>,
      <<"U+020B", <<"U+020A">>>>, <<"U+020D", <<"U+020C">>>>, <<"U+020F", <<"U+020E">>>>,
      <<"U+0211", <<"U+0210">>>>, <<"U+0213", <<"U+0212">>>>, <<"U+0215", <<"U+0214">>>>,
      <<"U+0217", <<"U+0216">>>>, <<"U+0219", <<"U+0218">>>>, <<"U+021B", <<"U+021A">>>>,
      <<"U+021D", <<"U+021C">>>>, <<"U+021F", <<"U+021E">>>>, <<"U+0223", <<"U+0222">>>>,
      <<"U+0225", <<"U+0224">>>>, <<"U+0227", <<"U+0226">>>>, <<"U+0229", <<"U+0228">>>>,
      <<"U+022B", <<"U+022A">>>>, <<"U+022D", <<"U+022C">>>>, <<"U+022F", <<"U+022E">>>>,
      <<"U+0231", <<"U+0230">>>>, <<"U+0233", <<"U+0232">>>>, <<"U+023C", <<"U+023B">>>>,
      <<"U+023F", <<"U+2C7E">>>>, <<"U+0240", <<"U+2C7F">>>>, <<"U+0242", <<"U+0241">>>>,
      <<"U+0247", <<"U+0246">>>>, <<"U+0249", <<"U+0248">>>>, <<"U+024B", <<"U+024A">>>>,
      <<"U+024D", <<"U+024C">>>>, <<"U+024F", <<"U+024E">>>>, <<"U+0250", <<"U+2C6F">>>>,
      <<"U+0251", <<"U+2C6D">>>>, <<"U+0252", <<"U+2C70">>>>, <<"U+0253", <<"U+0181">>>>,
      <<"U+0254", <<"U+0186">>>>, <<"U+0256", <<"U+0189">>>>, <<"U+0257", <<"U+018A">>>>,
      <<"U+0259", <<"U+018F">>>>, <<"U+025B", <<"U+0190">>>>, <<"U+025C", <<"U+A7AB">>>>,
      <<"U+0260", <<"U+0193">>>>, <<"U+0261", <<"U+A7AC">>>>, <<"U+0263", <<"U+0194">>>>,
      <<"U+0264", <<"U+A7CB">>>>, <<"U+0265", <<"U+A78D">>>>, <<"U+0266", <<"U+A7AA">>>>,
      <<"U+0268", <<"U+0197">>>>, <<"U+0269", <<"U+0196">>>>, <<"U+026A", <<"U+A7AE">>>>,
      <<"U+026B", <<"U+2C62">>>>, <<"U+026C", <<"U+A7AD">>>>, <<"U+026F", <<"U+019C">>>>,
      <<"U+0271", <<"U+2C6E">>>>, <<"U+0272", <<"U+019D">>>>, <<"U+0275", <<"U+019F">>>>,
      <<"U+027D", <<"U+2C64">>>>, <<"U+0280", <<"U+01A6">>>>, <<"U+0282", <<"U+A7C5">>>>,
      <<"U+0283", <<"U+01A9">>>>, <<"U+0287", <<"U+A7B1">>>>, <<"U+0288", <<"U+01AE">>>>,
      <<"U+0289", <<"U+0244">>>>, <<"U+028A", <<"U+01B1">>>>, <<"U+028B", <<"U+01B2">>>>,
      <<"U+028C", <<"U+0245">>>>, <<"U+0292", <<"U+01B7">>>>, <<"U+029D", <<"U+A7B2">>>>,
      <<"U+029E", <<"U+A7B0">>>>, <<"U+0345", <<"U+0399">>>>, <<"U+0371", <<"U+0370">>>>,
      <<"U+0373", <<"U+0372">>>>, <<"U+0377", <<"U+0376">>>>, <<"U+037B", <<"U+03FD">>>>,
      <<"U+037C", <<"U+03FE">>>>, <<"U+037D", <<"U+03FF">>>>,
      <<"U+0390", <<"U+0399", "U+0308", "U+0301">>>>, <<"U+03AC", <<"U+0386">>>>,
      <<"U+03AD", <<"U+0388">>>>, <<"U+03AE", <<"U+0389">>>>, <<"U+03AF", <<"U+038A">>>>,
      <<"U+03B0", <<"U+03A5", "U+0308", "U+0301">>>>, <<"U+03B1", <<"U+0391">>>>,
      <<"U+03B2", <<"U+0392">>>>, <<"U+03B3", <<"U+0393">>>>, <<"U+03B4", <<"U+0394">>>>,
      <<"U+03B5", <<"U+0395">>>>, <<"U+03B6", <<"U+0396">>>>, <<"U+03B7", <<"U+0397">>>>,
      <<"U+03B8", <<"U+0398">>>>, <<"U+03B9", <<"U+0399">>>>, <<"U+03BA", <<"U+039A">>>>,
      <<"U+03BB", <<"U+039B">>>>, <<"U+03BC", <<"U+039C">>>>, <<"U+03BD", <<"U+039D">>>>,
      <<"U+03BE", <<"U+039E">>>>, <<"U+03BF", <<"U+039F">>>>, <<"U+03C0", <<"U+03A0">>>>,
      <<"U+03C1", <<"U+03A1">>>>, <<"U+03C2", <<"U+03A3">>>>, <<"U+03C3", <<"U+03A3">>>>,
      <<"U+03C4", <<"U+03A4">>>>, <<"U+03C5", <<"U+03A5">>>>, <<"U+03C6", <<"U+03A6">>>>,
      <<"U+03C7", <<"U+03A7">>>>, <<"U+03C8", <<"U+03A8">>>>, <<"U+03C9", <<"U+03A9">>>>,
      <<"U+03CA", <<"U+03AA">>>>, <<"U+03CB", <<"U+03AB">>>>, <<"U+03CC", <<"U+038C">>>>,
      <<"U+03CD", <<"U+038E">>>>, <<"U+03CE", <<"U+038F">>>>, <<"U+03D0", <<"U+0392">>>>,
      <<"U+03D1", <<"U+0398">>>>, <<"U+03D5", <<"U+03A6">>>>, <<"U+03D6", <<"U+03A0">>>>,
      <<"U+03D7", <<"U+03CF">>>>, <<"U+03D9", <<"U+03D8">>>>, <<"U+03DB", <<"U+03DA">>>>,
      <<"U+03DD", <<"U+03DC">>>>, <<"U+03DF", <<"U+03DE">>>>, <<"U+03E1", <<"U+03E0">>>>,
      <<"U+03E3", <<"U+03E2">>>>, <<"U+03E5", <<"U+03E4">>>>, <<"U+03E7", <<"U+03E6">>>>,
      <<"U+03E9", <<"U+03E8">>>>, <<"U+03EB", <<"U+03EA">>>>, <<"U+03ED", <<"U+03EC">>>>,
      <<"U+03EF", <<"U+03EE">>>>, <<"U+03F0", <<"U+039A">>>>, <<"U+03F1", <<"U+03A1">>>>,
      <<"U+03F2", <<"U+03F9">>>>, <<"U+03F3", <<"U+037F">>>>, <<"U+03F5", <<"U+0395">>>>,
      <<"U+03F8", <<"U+03F7">>>>, <<"U+03FB", <<"U+03FA">>>>, <<"U+0430", <<"U+0410">>>>,
      <<"U+0431", <<"U+0411">>>>, <<"U+0432", <<"U+0412">>>>, <<"U+0433", <<"U+0413">>>>,
      <<"U+0434", <<"U+0414">>>>, <<"U+0435", <<"U+0415">>>>, <<"U+0436", <<"U+0416">>>>,
      <<"U+0437", <<"U+0417">>>>, <<"U+0438", <<"U+0418">>>>, <<"U+0439", <<"U+0419">>>>,
      <<"U+043A", <<"U+041A">>>>, <<"U+043B", <<"U+041B">>>>, <<"U+043C", <<"U+041C">>>>,
      <<"U+043D", <<"U+041D">>>>, <<"U+043E", <<"U+041E">>>>, <<"U+043F", <<"U+041F">>>>,
      <<"U+0440", <<"U+0420">>>>, <<"U+0441", <<"U+0421">>>>, <<"U+0442", <<"U+0422">>>>,
      <<"U+0443", <<"U+0423">>>>, <<"U+0444", <<"U+0424">>>>, <<"U+0445", <<"U+0425">>>>,
      <<"U+0446", <<"U+0426">>>>, <<"U+0447", <<"U+0427">>>>, <<"U+0448", <<"U+0428">>>>,
      <<"U+0449", <<"U+0429">>>>, <<"U+044A", <<"U+042A">>>>, <<"U+044B", <<"U+042B">>>>,
      <<"U+044C", <<"U+042C">>>>, <<"U+044D", <<"U+042D">>>>, <<"U+044E", <<"U+042E">>>>,
      <<"U+044F", <<"U+042F">>>>, <<"U+0450", <<"U+0400">>>>, <<"U+0451", <<"U+0401">>>>,
      <<"U+0452", <<"U+0402">>>>, <<"U+0453", <<"U+0403">>>>, <<"U+0454", <<"U+0404">>>>,
      <<"U+0455", <<"U+0405">>>>, <<"U+0456", <<"U+0406">>>>, <<"U+0457", <<"U+0407">>>>,
      <<"U+0458", <<"U+0408">>>>, <<"U+0459", <<"U+0409">>>>, <<"U+045A", <<"U+040A">>>>,
      <<"U+045B", <<"U+040B">>>>, <<"U+045C", <<"U+040C">>>>, <<"U+045D", <<"U+040D">>>>,
      <<"U+045E", <<"U+040E">>>>, <<"U+045F", <<"U+040F">>>>, <<"U+0461", <<"U+0460">>>>,
      <<"U+0463", <<"U+0462">>>>, <<"U+0465", <<"U+0464">>>>, <<"U+0467", <<"U+0466">>>>,
      <<"U+0469", <<"U+0468">>>>, <<"U+046B", <<"U+046A">>>>, <<"U+046D", <<"U+046C">>>>,
      <<"U+046F", <<"U+046E">>>>, <<"U+0471", <<"U+0470">>>>, <<"U+0473", <<"U+0472">>>>,
      <<"U+0475", <<"U+0474">>>>, <<"U+0477", <<"U+0476">>>>, <<"U+0479", <<"U+0478">>>>,
      <<"U+047B", <<"U+047A">>>>, <<"U+047D", <<"U+047C">>>>, <<"U+047F", <<"U+047E">>>>,
      <<"U+0481", <<"U+0480">>>>, <<"U+048B", <<"U+048A">>>>, <<"U+048D", <<"U+048C">>>>,
      <<"U+048F", <<"U+048E">>>>, <<"U+0491", <<"U+0490">>>>, <<"U+0493", <<"U+0492">>>>,
      <<"U+0495", <<"U+0494">>>>, <<"U+0497", <<"U+0496">>>>, <<"U+0499", <<"U+0498">>>>,
      <<"U+049B", <<"U+049A">>>>, <<"U+049D", <<"U+049C">>>>, <<"U+049F", <<"U+049E">>>>,
      <<"U+04A1", <<"U+04A0">>>>, <<"U+04A3", <<"U+04A2">>>>, <<"U+04A5", <<"U+04A4">>>>,
      <<"U+04A7", <<"U+04A6">>>>, <<"U+04A9", <<"U+04A8">>>>, <<"U+04AB", <<"U+04AA">>>>,
      <<"U+04AD", <<"U+04AC">>>>, <<"U+04AF", <<"U+04AE">>>>, <<"U+04B1", <<"U+04B0">>>>,
      <<"U+04B3", <<"U+04B2">>>>, <<"U+04B5", <<"U+04B4">>>>, <<"U+04B7", <<"U+04B6">>>>,
      <<"U+04B9", <<"U+04B8">>>>, <<"U+04BB", <<"U+04BA">>>>, <<"U+04BD", <<"U+04BC">>>>,
      <<"U+04BF", <<"U+04BE">>>>, <<"U+04C2", <<"U+04C1">>>>, <<"U+04C4", <<"U+04C3">>>>,
      <<"U+04C6", <<"U+04C5">>>>, <<"U+04C8", <<"U+04C7">>>>, <<"U+04CA", <<"U+04C9">>>>,
      <<"U+04CC", <<"U+04CB">>>>, <<"U+04CE", <<"U+04CD">>>>, <<"U+04CF", <<"U+04C0">>>>,
      <<"U+04D1", <<"U+04D0">>>>, <<"U+04D3", <<"U+04D2">>>>, <<"U+04D5", <<"U+04D4">>>>,
      <<"U+04D7", <<"U+04D6">>>>, <<"U+04D9", <<"U+04D8">>>>, <<"U+04DB", <<"U+04DA">>>>,
      <<"U+04DD", <<"U+04DC">>>>, <<"U+04DF", <<"U+04DE">>>>, <<"U+04E1", <<"U+04E0">>>>,
      <<"U+04E3", <<"U+04E2">>>>, <<"U+04E5", <<"U+04E4">>>>, <<"U+04E7", <<"U+04E6">>>>,
      <<"U+04E9", <<"U+04E8">>>>, <<"U+04EB", <<"U+04EA">>>>, <<"U+04ED", <<"U+04EC">>>>,
      <<"U+04EF", <<"U+04EE">>>>, <<"U+04F1", <<"U+04F0">>>>, <<"U+04F3", <<"U+04F2">>>>,
      <<"U+04F5", <<"U+04F4">>>>, <<"U+04F7", <<"U+04F6">>>>, <<"U+04F9", <<"U+04F8">>>>,
      <<"U+04FB", <<"U+04FA">>>>, <<"U+04FD", <<"U+04FC">>>>, <<"U+04FF", <<"U+04FE">>>>,
      <<"U+0501", <<"U+0500">>>>, <<"U+0503", <<"U+0502">>>>, <<"U+0505", <<"U+0504">>>>,
      <<"U+0507", <<"U+0506">>>>, <<"U+0509", <<"U+0508">>>>, <<"U+050B", <<"U+050A">>>>,
      <<"U+050D", <<"U+050C">>>>, <<"U+050F", <<"U+050E">>>>, <<"U+0511", <<"U+0510">>>>,
      <<"U+0513", <<"U+0512">>>>, <<"U+0515", <<"U+0514">>>>, <<"U+0517", <<"U+0516">>>>,
      <<"U+0519", <<"U+0518">>>>, <<"U+051B", <<"U+051A">>>>, <<"U+051D", <<"U+051C">>>>,
      <<"U+051F", <<"U+051E">>>>, <<"U+0521", <<"U+0520">>>>, <<"U+0523", <<"U+0522">>>>,
      <<"U+0525", <<"U+0524">>>>, <<"U+0527", <<"U+0526">>>>, <<"U+0529", <<"U+0528">>>>,
      <<"U+052B", <<"U+052A">>>>, <<"U+052D", <<"U+052C">>>>, <<"U+052F", <<"U+052E">>>>,
      <<"U+0561", <<"U+0531">>>>, <<"U+0562", <<"U+0532">>>>, <<"U+0563", <<"U+0533">>>>,
      <<"U+0564", <<"U+0534">>>>, <<"U+0565", <<"U+0535">>>>, <<"U+0566", <<"U+0536">>>>,
      <<"U+0567", <<"U+0537">>>>, <<"U+0568", <<"U+0538">>>>, <<"U+0569", <<"U+0539">>>>,
      <<"U+056A", <<"U+053A">>>>, <<"U+056B", <<"U+053B">>>>, <<"U+056C", <<"U+053C">>>>,
      <<"U+056D", <<"U+053D">>>>, <<"U+056E", <<"U+053E">>>>, <<"U+056F", <<"U+053F">>>>,
      <<"U+0570", <<"U+0540">>>>, <<"U+0571", <<"U+0541">>>>, <<"U+0572", <<"U+0542">>>>,
      <<"U+0573", <<"U+0543">>>>, <<"U+0574", <<"U+0544">>>>, <<"U+0575", <<"U+0545">>>>,
      <<"U+0576", <<"U+0546">>>>, <<"U+0577", <<"U+0547">>>>, <<"U+0578", <<"U+0548">>>>,
      <<"U+0579", <<"U+0549">>>>, <<"U+057A", <<"U+054A">>>>, <<"U+057B", <<"U+054B">>>>,
      <<"U+057C", <<"U+054C">>>>, <<"U+057D", <<"U+054D">>>>, <<"U+057E", <<"U+054E">>>>,
      <<"U+057F", <<"U+054F">>>>, <<"U+0580", <<"U+0550">>>>, <<"U+0581", <<"U+0551">>>>,
      <<"U+0582", <<"U+0552">>>>, <<"U+0583", <<"U+0553">>>>, <<"U+0584", <<"U+0554">>>>,
      <<"U+0585", <<"U+0555">>>>, <<"U+0586", <<"U+0556">>>>,
      <<"U+0587", <<"U+0535", "U+0552">>>>, <<"U+10D0", <<"U+1C90">>>>,
      <<"U+10D1", <<"U+1C91">>>>, <<"U+10D2", <<"U+1C92">>>>, <<"U+10D3", <<"U+1C93">>>>,
      <<"U+10D4", <<"U+1C94">>>>, <<"U+10D5", <<"U+1C95">>>>, <<"U+10D6", <<"U+1C96">>>>,
      <<"U+10D7", <<"U+1C97">>>>, <<"U+10D8", <<"U+1C98">>>>, <<"U+10D9", <<"U+1C99">>>>,
      <<"U+10DA", <<"U+1C9A">>>>, <<"U+10DB", <<"U+1C9B">>>>, <<"U+10DC", <<"U+1C9C">>>>,
      <<"U+10DD", <<"U+1C9D">>>>, <<"U+10DE", <<"U+1C9E">>>>, <<"U+10DF", <<"U+1C9F">>>>,
      <<"U+10E0", <<"U+1CA0">>>>, <<"U+10E1", <<"U+1CA1">>>>, <<"U+10E2", <<"U+1CA2">>>>,
      <<"U+10E3", <<"U+1CA3">>>>, <<"U+10E4", <<"U+1CA4">>>>, <<"U+10E5", <<"U+1CA5">>>>,
      <<"U+10E6", <<"U+1CA6">>>>, <<"U+10E7", <<"U+1CA7">>>>, <<"U+10E8", <<"U+1CA8">>>>,
      <<"U+10E9", <<"U+1CA9">>>>, <<"U+10EA", <<"U+1CAA">>>>, <<"U+10EB", <<"U+1CAB">>>>,
      <<"U+10EC", <<"U+1CAC">>>>, <<"U+10ED", <<"U+1CAD">>>>, <<"U+10EE", <<"U+1CAE">>>>,
      <<"U+10EF", <<"U+1CAF">>>>, <<"U+10F0", <<"U+1CB0">>>>, <<"U+10F1", <<"U+1CB1">>>>,
      <<"U+10F2", <<"U+1CB2">>>>, <<"U+10F3", <<"U+1CB3">>>>, <<"U+10F4", <<"U+1CB4">>>>,
      <<"U+10F5", <<"U+1CB5">>>>, <<"U+10F6", <<"U+1CB6">>>>, <<"U+10F7", <<"U+1CB7">>>>,
      <<"U+10F8", <<"U+1CB8">>>>, <<"U+10F9", <<"U+1CB9">>>>, <<"U+10FA", <<"U+1CBA">>>>,
      <<"U+10FD", <<"U+1CBD">>>>, <<"U+10FE", <<"U+1CBE">>>>, <<"U+10FF", <<"U+1CBF">>>>,
      <<"U+13F8", <<"U+13F0">>>>, <<"U+13F9", <<"U+13F1">>>>, <<"U+13FA", <<"U+13F2">>>>,
      <<"U+13FB", <<"U+13F3">>>>, <<"U+13FC", <<"U+13F4">>>>, <<"U+13FD", <<"U+13F5">>>>,
      <<"U+1C80", <<"U+0412">>>>, <<"U+1C81", <<"U+0414">>>>, <<"U+1C82", <<"U+041E">>>>,
      <<"U+1C83", <<"U+0421">>>>, <<"U+1C84", <<"U+0422">>>>, <<"U+1C85", <<"U+0422">>>>,
      <<"U+1C86", <<"U+042A">>>>, <<"U+1C87", <<"U+0462">>>>, <<"U+1C88", <<"U+A64A">>>>,
      <<"U+1C8A", <<"U+1C89">>>>, <<"U+1D79", <<"U+A77D">>>>, <<"U+1D7D", <<"U+2C63">>>>,
      <<"U+1D8E", <<"U+A7C6">>>>, <<"U+1E01", <<"U+1E00">>>>, <<"U+1E03", <<"U+1E02">>>>,
      <<"U+1E05", <<"U+1E04">>>>, <<"U+1E07", <<"U+1E06">>>>, <<"U+1E09", <<"U+1E08">>>>,
      <<"U+1E0B", <<"U+1E0A">>>>, <<"U+1E0D", <<"U+1E0C">>>>, <<"U+1E0F", <<"U+1E0E">>>>,
      <<"U+1E11", <<"U+1E10">>>>, <<"U+1E13", <<"U+1E12">>>>, <<"U+1E15", <<"U+1E14">>>>,
      <<"U+1E17", <<"U+1E16">>>>, <<"U+1E19", <<"U+1E18">>>>, <<"U+1E1B", <<"U+1E1A">>>>,
      <<"U+1E1D", <<"U+1E1C">>>>, <<"U+1E1F", <<"U+1E1E">>>>, <<"U+1E21", <<"U+1E20">>>>,
      <<"U+1E23", <<"U+1E22">>>>, <<"U+1E25", <<"U+1E24">>>>, <<"U+1E27", <<"U+1E26">>>>,
      <<"U+1E29", <<"U+1E28">>>>, <<"U+1E2B", <<"U+1E2A">>>>, <<"U+1E2D", <<"U+1E2C">>>>,
      <<"U+1E2F", <<"U+1E2E">>>>, <<"U+1E31", <<"U+1E30">>>>, <<"U+1E33", <<"U+1E32">>>>,
      <<"U+1E35", <<"U+1E34">>>>, <<"U+1E37", <<"U+1E36">>>>, <<"U+1E39", <<"U+1E38">>>>,
      <<"U+1E3B", <<"U+1E3A">>>>, <<"U+1E3D", <<"U+1E3C">>>>, <<"U+1E3F", <<"U+1E3E">>>>,
      <<"U+1E41", <<"U+1E40">>>>, <<"U+1E43", <<"U+1E42">>>>, <<"U+1E45", <<"U+1E44">>>>,
      <<"U+1E47", <<"U+1E46">>>>, <<"U+1E49", <<"U+1E48">>>>, <<"U+1E4B", <<"U+1E4A">>>>,
      <<"U+1E4D", <<"U+1E4C">>>>, <<"U+1E4F", <<"U+1E4E">>>>, <<"U+1E51", <<"U+1E50">>>>,
      <<"U+1E53", <<"U+1E52">>>>, <<"U+1E55", <<"U+1E54">>>>, <<"U+1E57", <<"U+1E56">>>>,
      <<"U+1E59", <<"U+1E58">>>>, <<"U+1E5B", <<"U+1E5A">>>>, <<"U+1E5D", <<"U+1E5C">>>>,
      <<"U+1E5F", <<"U+1E5E">>>>, <<"U+1E61", <<"U+1E60">>>>, <<"U+1E63", <<"U+1E62">>>>,
      <<"U+1E65", <<"U+1E64">>>>, <<"U+1E67", <<"U+1E66">>>>, <<"U+1E69", <<"U+1E68">>>>,
      <<"U+1E6B", <<"U+1E6A">>>>, <<"U+1E6D", <<"U+1E6C">>>>, <<"U+1E6F", <<"U+1E6E">>>>,
      <<"U+1E71", <<"U+1E70">>>>, <<"U+1E73", <<"U+1E72">>>>, <<"U+1E75", <<"U+1E74">>>>,
      <<"U+1E77", <<"U+1E76">>>>, <<"U+1E79", <<"U+1E78">>>>, <<"U+1E7B", <<"U+1E7A">>>>,
      <<"U+1E7D", <<"U+1E7C">>>>, <<"U+1E7F", <<"U+1E7E">>>>, <<"U+1E81", <<"U+1E80">>>>,
      <<"U+1E83", <<"U+1E82">>>>, <<"U+1E85", <<"U+1E84">>>>, <<"U+1E87", <<"U+1E86">>>>,
      <<"U+1E89", <<"U+1E88">>>>, <<"U+1E8B", <<"U+1E8A">>>>, <<"U+1E8D", <<"U+1E8C">>>>,
      <<"U+1E8F", <<"U+1E8E">>>>, <<"U+1E91", <<"U+1E90">>>>, <<"U+1E93", <<"U+1E92">>>>,
      <<"U+1E95", <<"U+1E94">>>>, <<"U+1E96", <<"H", "U+0331">>>>,
      <<"U+1E97", <<"T", "U+0308">>>>, <<"U+1E98", <<"W", "U+030A">>>>,
      <<"U+1E99", <<"Y", "U+030A">>>>, <<"U+1E9A", <<"A", "U+02BE">>>>,
      <<"U+1E9B", <<"U+1E60">>>>, <<"U+1EA1", <<"U+1EA0">>>>, <<"U+1EA3", <<"U+1EA2">>>>,
      <<"U+1EA5", <<"U+1EA4">>>>, <<"U+1EA7", <<"U+1EA6">>>>, <<"U+1EA9", <<"U+1EA8">>>>,
      <<"U+1EAB", <<"U+1EAA">>>>, <<"U+1EAD", <<"U+1EAC">>>>, <<"U+1EAF", <<"U+1EAE">>>>,
      <<"U+1EB1", <<"U+1EB0">>>>, <<"U+1EB3", <<"U+1EB2">>>>, <<"U+1EB5", <<"U+1EB4">>>>,
      <<"U+1EB7", <<"U+1EB6">>>>, <<"U+1EB9", <<"U+1EB8">>>>, <<"U+1EBB", <<"U+1EBA">>>>,
      <<"U+1EBD", <<"U+1EBC">>>>, <<"U+1EBF", <<"U+1EBE">>>>, <<"U+1EC1", <<"U+1EC0">>>>,
      <<"U+1EC3", <<"U+1EC2">>>>, <<"U+1EC5", <<"U+1EC4">>>>, <<"U+1EC7", <<"U+1EC6">>>>,
      <<"U+1EC9", <<"U+1EC8">>>>, <<"U+1ECB", <<"U+1ECA">>>>, <<"U+1ECD", <<"U+1ECC">>>>,
      <<"U+1ECF", <<"U+1ECE">>>>, <<"U+1ED1", <<"U+1ED0">>>>, <<"U+1ED3", <<"U+1ED2">>>>,
      <<"U+1ED5", <<"U+1ED4">>>>, <<"U+1ED7", <<"U+1ED6">>>>, <<"U+1ED9", <<"U+1ED8">>>>,
      <<"U+1EDB", <<"U+1EDA">>>>, <<"U+1EDD", <<"U+1EDC">>>>, <<"U+1EDF", <<"U+1EDE">>>>,
      <<"U+1EE1", <<"U+1EE0">>>>, <<"U+1EE3", <<"U+1EE2">>>>, <<"U+1EE5", <<"U+1EE4">>>>,
      <<"U+1EE7", <<"U+1EE6">>>>, <<"U+1EE9", <<"U+1EE8">>>>, <<"U+1EEB", <<"U+1EEA">>>>,
      <<"U+1EED", <<"U+1EEC">>>>, <<"U+1EEF", <<"U+1EEE">>>>, <<"U+1EF1", <<"U+1EF0">>>>,
      <<"U+1EF3", <<"U+1EF2">>>>, <<"U+1EF5", <<"U+1EF4">>>>, <<"U+1EF7", <<"U+1EF6">>>>,
      <<"U+1EF9", <<"U+1EF8">>>>, <<"U+1EFB", <<"U+1EFA">>>>, <<"U+1EFD", <<"U+1EFC">>>>,
      <<"U+1EFF", <<"U+1EFE">>>>, <<"U+1F00", <<"U+1F08">>>>, <<"U+1F01", <<"U+1F09">>>>,
      <<"U+1F02", <<"U+1F0A">>>>, <<"U+1F03", <<"U+1F0B">>>>, <<"U+1F04", <<"U+1F0C">>>>,
      <<"U+1F05", <<"U+1F0D">>>>, <<"U+1F06", <<"U+1F0E">>>>, <<"U+1F07", <<"U+1F0F">>>>,
      <<"U+1F10", <<"U+1F18">>>>, <<"U+1F11", <<"U+1F19">>>>, <<"U+1F12", <<"U+1F1A">>>>,
      <<"U+1F13", <<"U+1F1B">>>>, <<"U+1F14", <<"U+1F1C">>>>, <<"U+1F15", <<"U+1F1D">>>>,
      <<"U+1F20", <<"U+1F28">>>>, <<"U+1F21", <<"U+1F29">>>>, <<"U+1F22", <<"U+1F2A">>>>,
      <<"U+1F23", <<"U+1F2B">>>>, <<"U+1F24", <<"U+1F2C">>>>, <<"U+1F25", <<"U+1F2D">>>>,
      <<"U+1F26", <<"U+1F2E">>>>, <<"U+1F27", <<"U+1F2F">>>>, <<"U+1F30", <<"U+1F38">>>>,
      <<"U+1F31", <<"U+1F39">>>>, <<"U+1F32", <<"U+1F3A">>>>, <<"U+1F33", <<"U+1F3B">>>>,
      <<"U+1F34", <<"U+1F3C">>>>, <<"U+1F35", <<"U+1F3D">>>>, <<"U+1F36", <<"U+1F3E">>>>,
      <<"U+1F37", <<"U+1F3F">>>>, <<"U+1F40", <<"U+1F48">>>>, <<"U+1F41", <<"U+1F49">>>>,
      <<"U+1F42", <<"U+1F4A">>>>, <<"U+1F43", <<"U+1F4B">>>>, <<"U+1F44", <<"U+1F4C">>>>,
      <<"U+1F45", <<"U+1F4D">>>>, <<"U+1F50", <<"U+03A5", "U+0313">>>>,
      <<"U+1F51", <<"U+1F59">>>>, <<"U+1F52", <<"U+03A5", "U+0313", "U+0300">>>>,
      <<"U+1F53", <<"U+1F5B">>>>, <<"U+1F54", <<"U+03A5", "U+0313", "U+0301">>>>,
      <<"U+1F55", <<"U+1F5D">>>>, <<"U+1F56", <<"U+03A5", "U+0313", "U+0342">>>>,
      <<"U+1F57", <<"U+1F5F">>>>, <<"U+1F60", <<"U+1F68">>>>, <<"U+1F61", <<"U+1F69">>>>,
      <<"U+1F62", <<"U+1F6A">>>>, <<"U+1F63", <<"U+1F6B">>>>, <<"U+1F64", <<"U+1F6C">>>>,
      <<"U+1F65", <<"U+1F6D">>>>, <<"U+1F66", <<"U+1F6E">>>>, <<"U+1F67", <<"U+1F6F">>>>,
      <<"U+1F70", <<"U+1FBA">>>>, <<"U+1F71", <<"U+1FBB">>>>, <<"U+1F72", <<"U+1FC8">>>>,
      <<"U+1F73", <<"U+1FC9">>>>, <<"U+1F74", <<"U+1FCA">>>>, <<"U+1F75", <<"U+1FCB">>>>,
      <<"U+1F76", <<"U+1FDA">>>>, <<"U+1F77", <<"U+1FDB">>>>, <<"U+1F78", <<"U+1FF8">>>>,
      <<"U+1F79", <<"U+1FF9">>>>, <<"U+1F7A", <<"U+1FEA">>>>, <<"U+1F7B", <<"U+1FEB">>>>,
      <<"U+1F7C", <<"U+1FFA">>>>, <<"U+1F7D", <<"U+1FFB">>>>,
      <<"U+1F80", <<"U+1F08", "U+0399">>>>, <<"U+1F81", <<"U+1F09", "U+0399">>>>,
      <<"U+1F82", <<"U+1F0A", "U+0399">>>>, <<"U+1F83", <<"U+1F0B", "U+0399">>>>,
      <<"U+1F84", <<"U+1F0C", "U+0399">>>>, <<"U+1F85", <<"U+1F0D", "U+0399">>>>,
      <<"U+1F86", <<"U+1F0E", "U+0399">>>>, <<"U+1F87", <<"U+1F0F", "U+0399">>>>,
      <<"U+1F88", <<"U+1F08", "U+0399">>>>, <<"U+1F89", <<"U+1F09", "U+0399">>>>,
      <<"U+1F8A", <<"U+1F0A", "U+0399">>>>, <<"U+1F8B", <<"U+1F0B", "U+0399">>>>,
      <<"U+1F8C", <<"U+1F0C", "U+0399">>>>, <<"U+1F8D", <<"U+1F0D", "U+0399">>>>,
      <<"U+1F8E", <<"U+1F0E", "U+0399">>>>, <<"U+1F8F", <<"U+1F0F", "U+0399">>>>,
      <<"U+1F90", <<"U+1F28", "U+0399">>>>, <<"U+1F91", <<"U+1F29", "U+0399">>>>,
      <<"U+1F92", <<"U+1F2A", "U+0399">>>>, <<"U+1F93", <<"U+1F2B", "U+0399">>>>,
      <<"U+1F94", <<"U+1F2C", "U+0399">>>>, <<"U+1F95", <<"U+1F2D", "U+0399">>>>,
      <<"U+1F96", <<"U+1F2E", "U+0399">>>>, <<"U+1F97", <<"U+1F2F", "U+0399">>>>,
      <<"U+1F98", <<"U+1F28", "U+0399">>>>, <<"U+1F99", <<"U+1F29", "U+0399">>>>,
      <<"U+1F9A", <<"U+1F2A", "U+0399">>>>, <<"U+1F9B", <<"U+1F2B", "U+0399">>>>,
      <<"U+1F9C", <<"U+1F2C", "U+0399">>>>, <<"U+1F9D", <<"U+1F2D", "U+0399">>>>,
      <<"U+1F9E", <<"U+1F2E", "U+0399">>>>, <<"U+1F9F", <<"U+1F2F", "U+0399">>>>,
      <<"U+1FA0", <<"U+1F68", "U+0399">>>>, <<"U+1FA1", <<"U+1F69", "U+0399">>>>,
      <<"U+1FA2", <<"U+1F6A", "U+0399">>>>, <<"U+1FA3", <<"U+1F6B", "U+0399">>>>,
      <<"U+1FA4", <<"U+1F6C", "U+0399">>>>, <<"U+1FA5", <<"U+1F6D", "U+0399">>>>,
      <<"U+1FA6", <<"U+1F6E", "U+0399">>>>, <<"U+1FA7", <<"U+1F6F", "U+0399">>>>,
      <<"U+1FA8", <<"U+1F68", "U+0399">>>>, <<"U+1FA9", <<"U+1F69", "U+0399">>>>,
      <<"U+1FAA", <<"U+1F6A", "U+0399">>>>, <<"U+1FAB", <<"U+1F6B", "U+0399">>>>,
      <<"U+1FAC", <<"U+1F6C", "U+0399">>>>, <<"U+1FAD", <<"U+1F6D", "U+0399">>>>,
      <<"U+1FAE", <<"U+1F6E", "U+0399">>>>, <<"U+1FAF", <<"U+1F6F", "U+0399">>>>,
      <<"U+1FB0", <<"U+1FB8">>>>, <<"U+1FB1", <<"U+1FB9">>>>,
      <<"U+1FB2", <<"U+1FBA", "U+0399">>>>, <<"U+1FB3", <<"U+0391", "U+0399">>>>,
      <<"U+1FB4", <<"U+0386", "U+0399">>>>, <<"U+1FB6", <<"U+0391", "U+0342">>>>,
      <<"U+1FB7", <<"U+0391", "U+0342", "U+0399">>>>, <<"U+1FBC", <<"U+0391", "U+0399">>>>,
      <<"U+1FBE", <<"U+0399">>>>, <<"U+1FC2", <<"U+1FCA", "U+0399">>>>,
      <<"U+1FC3", <<"U+0397", "U+0399">>>>, <<"U+1FC4", <<"U+0389", "U+0399">>>>,
      <<"U+1FC6", <<"U+0397", "U+0342">>>>, <<"U+1FC7", <<"U+0397", "U+0342", "U+0399">>>>,
      <<"U+1FCC", <<"U+0397", "U+0399">>>>, <<"U+1FD0", <<"U+1FD8">>>>,
      <<"U+1FD1", <<"U+1FD9">>>>, <<"U+1FD2", <<"U+0399", "U+0308", "U+0300">>>>,
      <<"U+1FD3", <<"U+0399", "U+0308", "U+0301">>>>, <<"U+1FD6", <<"U+0399", "U+0342">>>>,
      <<"U+1FD7", <<"U+0399", "U+0308", "U+0342">>>>, <<"U+1FE0", <<"U+1FE8">>>>,
      <<"U+1FE1", <<"U+1FE9">>>>, <<"U+1FE2", <<"U+03A5", "U+0308", "U+0300">>>>,
      <<"U+1FE3", <<"U+03A5", "U+0308", "U+0301">>>>, <<"U+1FE4", <<"U+03A1", "U+0313">>>>,
      <<"U+1FE5", <<"U+1FEC">>>>, <<"U+1FE6", <<"U+03A5", "U+0342">>>>,
      <<"U+1FE7", <<"U+03A5", "U+0308", "U+0342">>>>, <<"U+1FF2", <<"U+1FFA", "U+0399">>>>,
      <<"U+1FF3", <<"U+03A9", "U+0399">>>>, <<"U+1FF4", <<"U+038F", "U+0399">>>>,
      <<"U+1FF6", <<"U+03A9", "U+0342">>>>, <<"U+1FF7", <<"U+03A9", "U+0342", "U+0399">>>>,
      <<"U+1FFC", <<"U+03A9", "U+0399">>>>, <<"U+214E", <<"U+2132">>>>,
      <<"U+2170", <<"U+2160">>>>, <<"U+2171", <<"U+2161">>>>, <<"U+2172", <<"U+2162">>>>,
      <<"U+2173", <<"U+2163">>>>, <<"U+2174", <<"U+2164">>>>, <<"U+2175", <<"U+2165">>>>,
      <<"U+2176", <<"U+2166">>>>, <<"U+2177", <<"U+2167">>>>, <<"U+2178", <<"U+2168">>>>,
      <<"U+2179", <<"U+2169">>>>, <<"U+217A", <<"U+216A">>>>, <<"U+217B", <<"U+216B">>>>,
      <<"U+217C", <<"U+216C">>>>, <<"U+217D", <<"U+216D">>>>, <<"U+217E", <<"U+216E">>>>,
      <<"U+217F", <<"U+216F">>>>, <<"U+2184", <<"U+2183">>>>, <<"U+24D0", <<"U+24B6">>>>,
      <<"U+24D1", <<"U+24B7">>>>, <<"U+24D2", <<"U+24B8">>>>, <<"U+24D3", <<"U+24B9">>>>,
      <<"U+24D4", <<"U+24BA">>>>, <<"U+24D5", <<"U+24BB">>>>, <<"U+24D6", <<"U+24BC">>>>,
      <<"U+24D7", <<"U+24BD">>>>, <<"U+24D8", <<"U+24BE">>>>, <<"U+24D9", <<"U+24BF">>>>,
      <<"U+24DA", <<"U+24C0">>>>, <<"U+24DB", <<"U+24C1">>>>, <<"U+24DC", <<"U+24C2">>>>,
      <<"U+24DD", <<"U+24C3">>>>, <<"U+24DE", <<"U+24C4">>>>, <<"U+24DF", <<"U+24C5">>>>,
      <<"U+24E0", <<"U+24C6">>>>, <<"U+24E1", <<"U+24C7">>>>, <<"U+24E2", <<"U+24C8">>>>,
      <<"U+24E3", <<"U+24C9">>>>, <<"U+24E4", <<"U+24CA">>>>, <<"U+24E5", <<"U+24CB">>>>,
      <<"U+24E6", <<"U+24CC">>>>, <<"U+24E7", <<"U+24CD">>>>, <<"U+24E8", <<"U+24CE">>>>,
      <<"U+24E9", <<"U+24CF">>>>, <<"U+2C30", <<"U+2C00">>>>, <<"U+2C31", <<"U+2C01">>>>,
      <<"U+2C32", <<"U+2C02">>>>, <<"U+2C33", <<"U+2C03">>>>, <<"U+2C34", <<"U+2C04">>>>,
      <<"U+2C35", <<"U+2C05">>>>, <<"U+2C36", <<"U+2C06">>>>, <<"U+2C37", <<"U+2C07">>>>,
      <<"U+2C38", <<"U+2C08">>>>, <<"U+2C39", <<"U+2C09">>>>, <<"U+2C3A", <<"U+2C0A">>>>,
      <<"U+2C3B", <<"U+2C0B">>>>, <<"U+2C3C", <<"U+2C0C">>>>, <<"U+2C3D", <<"U+2C0D">>>>,
      <<"U+2C3E", <<"U+2C0E">>>>, <<"U+2C3F", <<"U+2C0F">>>>, <<"U+2C40", <<"U+2C10">>>>,
      <<"U+2C41", <<"U+2C11">>>>, <<"U+2C42", <<"U+2C12">>>>, <<"U+2C43", <<"U+2C13">>>>,
      <<"U+2C44", <<"U+2C14">>>>, <<"U+2C45", <<"U+2C15">>>>, <<"U+2C46", <<"U+2C16">>>>,
      <<"U+2C47", <<"U+2C17">>>>, <<"U+2C48", <<"U+2C18">>>>, <<"U+2C49", <<"U+2C19">>>>,
      <<"U+2C4A", <<"U+2C1A">>>>, <<"U+2C4B", <<"U+2C1B">>>>, <<"U+2C4C", <<"U+2C1C">>>>,
      <<"U+2C4D", <<"U+2C1D">>>>, <<"U+2C4E", <<"U+2C1E">>>>, <<"U+2C4F", <<"U+2C1F">>>>,
      <<"U+2C50", <<"U+2C20">>>>, <<"U+2C51", <<"U+2C21">>>>, <<"U+2C52", <<"U+2C22">>>>,
      <<"U+2C53", <<"U+2C23">>>>, <<"U+2C54", <<"U+2C24">>>>, <<"U+2C55", <<"U+2C25">>>>,
      <<"U+2C56", <<"U+2C26">>>>, <<"U+2C57", <<"U+2C27">>>>, <<"U+2C58", <<"U+2C28">>>>,
      <<"U+2C59", <<"U+2C29">>>>, <<"U+2C5A", <<"U+2C2A">>>>, <<"U+2C5B", <<"U+2C2B">>>>,
      <<"U+2C5C", <<"U+2C2C">>>>, <<"U+2C5D", <<"U+2C2D">>>>, <<"U+2C5E", <<"U+2C2E">>>>,
      <<"U+2C5F", <<"U+2C2F">>>>, <<"U+2C61", <<"U+2C60">>>>, <<"U+2C65", <<"U+023A">>>>,
      <<"U+2C66", <<"U+023E">>>>, <<"U+2C68", <<"U+2C67">>>>, <<"U+2C6A", <<"U+2C69">>>>,
      <<"U+2C6C", <<"U+2C6B">>>>, <<"U+2C73", <<"U+2C72">>>>, <<"U+2C76", <<"U+2C75">>>>,
      <<"U+2C81", <<"U+2C80">>>>, <<"U+2C83", <<"U+2C82">>>>, <<"U+2C85", <<"U+2C84">>>>,
      <<"U+2C87", <<"U+2C86">>>>, <<"U+2C89", <<"U+2C88">>>>, <<"U+2C8B", <<"U+2C8A">>>>,
      <<"U+2C8D", <<"U+2C8C">>>>, <<"U+2C8F", <<"U+2C8E">>>>, <<"U+2C91", <<"U+2C90">>>>,
      <<"U+2C93", <<"U+2C92">>>>, <<"U+2C95", <<"U+2C94">>>>, <<"U+2C97", <<"U+2C96">>>>,
      <<"U+2C99", <<"U+2C98">>>>, <<"U+2C9B", <<"U+2C9A">>>>, <<"U+2C9D", <<"U+2C9C">>>>,
      <<"U+2C9F", <<"U+2C9E">>>>, <<"U+2CA1", <<"U+2CA0">>>>, <<"U+2CA3", <<"U+2CA2">>>>,
      <<"U+2CA5", <<"U+2CA4">>>>, <<"U+2CA7", <<"U+2CA6">>>>, <<"U+2CA9", <<"U+2CA8">>>>,
      <<"U+2CAB", <<"U+2CAA">>>>, <<"U+2CAD", <<"U+2CAC">>>>, <<"U+2CAF", <<"U+2CAE">>>>,
      <<"U+2CB1", <<"U+2CB0">>>>, <<"U+2CB3", <<"U+2CB2">>>>, <<"U+2CB5", <<"U+2CB4">>>>,
      <<"U+2CB7", <<"U+2CB6">>>>, <<"U+2CB9", <<"U+2CB8">>>>, <<"U+2CBB", <<"U+2CBA">>>>,
      <<"U+2CBD", <<"U+2CBC">>>>, <<"U+2CBF", <<"U+2CBE">>>>, <<"U+2CC1", <<"U+2CC0">>>>,
      <<"U+2CC3", <<"U+2CC2">>>>, <<"U+2CC5", <<"U+2CC4">>>>, <<"U+2CC7", <<"U+2CC6">>>>,
      <<"U+2CC9", <<"U+2CC8">>>>, <<"U+2CCB", <<"U+2CCA">>>>, <<"U+2CCD", <<"U+2CCC">>>>,
      <<"U+2CCF", <<"U+2CCE">>>>, <<"U+2CD1", <<"U+2CD0">>>>, <<"U+2CD3", <<"U+2CD2">>>>,
      <<"U+2CD5", <<"U+2CD4">>>>, <<"U+2CD7", <<"U+2CD6">>>>, <<"U+2CD9", <<"U+2CD8">>>>,
      <<"U+2CDB", <<"U+2CDA">>>>, <<"U+2CDD", <<"U+2CDC">>>>, <<"U+2CDF", <<"U+2CDE">>>>,
      <<"U+2CE1", <<"U+2CE0">>>>, <<"U+2CE3", <<"U+2CE2">>>>, <<"U+2CEC", <<"U+2CEB">>>>,
      <<"U+2CEE", <<"U+2CED">>>>, <<"U+2CF3", <<"U+2CF2">>>>, <<"U+2D00", <<"U+10A0">>>>,
      <<"U+2D01", <<"U+10A1">>>>, <<"U+2D02", <<"U+10A2">>>>, <<"U+2D03", <<"U+10A3">>>>,
      <<"U+2D04", <<"U+10A4">>>>, <<"U+2D05", <<"U+10A5">>>>, <<"U+2D06", <<"U+10A6">>>>,
      <<"U+2D07", <<"U+10A7">>>>, <<"U+2D08", <<"U+10A8">>>>, <<"U+2D09", <<"U+10A9">>>>,
      <<"U+2D0A", <<"U+10AA">>>>, <<"U+2D0B", <<"U+10AB">>>>, <<"U+2D0C", <<"U+10AC">>>>,
      <<"U+2D0D", <<"U+10AD">>>>, <<"U+2D0E", <<"U+10AE">>>>, <<"U+2D0F", <<"U+10AF">>>>,
      <<"U+2D10", <<"U+10B0">>>>, <<"U+2D11", <<"U+10B1">>>>, <<"U+2D12", <<"U+10B2">>>>,
      <<"U+2D13", <<"U+10B3">>>>, <<"U+2D14", <<"U+10B4">>>>, <<"U+2D15", <<"U+10B5">>>>,
      <<"U+2D16", <<"U+10B6">>>>, <<"U+2D17", <<"U+10B7">>>>, <<"U+2D18", <<"U+10B8">>>>,
      <<"U+2D19", <<"U+10B9">>>>, <<"U+2D1A", <<"U+10BA">>>>, <<"U+2D1B", <<"U+10BB">>>>,
      <<"U+2D1C", <<"U+10BC">>>>, <<"U+2D1D", <<"U+10BD">>>>, <<"U+2D1E", <<"U+10BE">>>>,
      <<"U+2D1F", <<"U+10BF">>>>, <<"U+2D20", <<"U+10C0">>>>, <<"U+2D21", <<"U+10C1">>>>,
      <<"U+2D22", <<"U+10C2">>>>, <<"U+2D23", <<"U+10C3">>>>, <<"U+2D24", <<"U+10C4">>>>,
      <<"U+2D25", <<"U+10C5">>>>, <<"U+2D27", <<"U+10C7">>>>, <<"U+2D2D", <<"U+10CD">>>>,
      <<"U+A641", <<"U+A640">>>>, <<"U+A643", <<"U+A642">>>>, <<"U+A645", <<"U+A644">>>>,
      <<"U+A647", <<"U+A646">>>>, <<"U+A649", <<"U+A648">>>>, <<"U+A64B", <<"U+A64A">>>>,
      <<"U+A64D", <<"U+A64C">>>>, <<"U+A64F", <<"U+A64E">>>>, <<"U+A651", <<"U+A650">>>>,
      <<"U+A653", <<"U+A652">>>>, <<"U+A655", <<"U+A654">>>>, <<"U+A657", <<"U+A656">>>>,
      <<"U+A659", <<"U+A658">>>>, <<"U+A65B", <<"U+A65A">>>>, <<"U+A65D", <<"U+A65C">>>>,
      <<"U+A65F", <<"U+A65E">>>>, <<"U+A661", <<"U+A660">>>>, <<"U+A663", <<"U+A662">>>>,
      <<"U+A665", <<"U+A664">>>>, <<"U+A667", <<"U+A666">>>>, <<"U+A669", <<"U+A668">>>>,
      <<"U+A66B", <<"U+A66A">>>>, <<"U+A66D", <<"U+A66C">>>>, <<"U+A681", <<"U+A680">>>>,
      <<"U+A683", <<"U+A682">>>>, <<"U+A685", <<"U+A684">>>>, <<"U+A687", <<"U+A686">>>>,
      <<"U+A689", <<"U+A688">>>>, <<"U+A68B", <<"U+A68A">>>>, <<"U+A68D", <<"U+A68C">>>>,
      <<"U+A68F", <<"U+A68E">>>>, <<"U+A691", <<"U+A690">>>>, <<"U+A693", <<"U+A692">>>>,
      <<"U+A695", <<"U+A694">>>>, <<"U+A697", <<"U+A696">>>>, <<"U+A699", <<"U+A698">>>>,
      <<"U+A69B", <<"U+A69A">>>>, <<"U+A723", <<"U+A722">>>>, <<"U+A725", <<"U+A724">>>>,
      <<"U+A727", <<"U+A726">>>>, <<"U+A729", <<"U+A728">>>>, <<"U+A72B", <<"U+A72A">>>>,
      <<"U+A72D", <<"U+A72C">>>>, <<"U+A72F", <<"U+A72E">>>>, <<"U+A733", <<"U+A732">>>>,
      <<"U+A735", <<"U+A734">>>>, <<"U+A737", <<"U+A736">>>>, <<"U+A739", <<"U+A738">>>>,
      <<"U+A73B", <<"U+A73A">>>>, <<"U+A73D", <<"U+A73C">>>>, <<"U+A73F", <<"U+A73E">>>>,
      <<"U+A741", <<"U+A740">>>>, <<"U+A743", <<"U+A742">>>>, <<"U+A745", <<"U+A744">>>>,
      <<"U+A747", <<"U+A746">>>>, <<"U+A749", <<"U+A748">>>>, <<"U+A74B", <<"U+A74A">>>>,
      <<"U+A74D", <<"U+A74C">>>>, <<"U+A74F", <<"U+A74E">>>>, <<"U+A751", <<"U+A750">>>>,
      <<"U+A753", <<"U+A752">>>>, <<"U+A755", <<"U+A754">>>>, <<"U+A757", <<"U+A756">>>>,
      <<"U+A759", <<"U+A758">>>>, <<"U+A75B", <<"U+A75A">>>>, <<"U+A75D", <<"U+A75C">>>>,
      <<"U+A75F", <<"U+A75E">>>>, <<"U+A761", <<"U+A760">>>>, <<"U+A763", <<"U+A762">>>>,
      <<"U+A765", <<"U+A764">>>>, <<"U+A767", <<"U+A766">>>>, <<"U+A769", <<"U+A768">>>>,
      <<"U+A76B", <<"U+A76A">>>>, <<"U+A76D", <<"U+A76C">>>>, <<"U+A76F", <<"U+A76E">>>>,
      <<"U+A77A", <<"U+A779">>>>, <<"U+A77C", <<"U+A77B">>>>, <<"U+A77F", <<"U+A77E">>>>,
      <<"U+A781", <<"U+A780">>>>, <<"U+A783", <<"U+A782">>>>, <<"U+A785", <<"U+A784">>>>,
      <<"U+A787", <<"U+A786">>>>, <<"U+A78C", <<"U+A78B">>>>, <<"U+A791", <<"U+A790">>>>,
      <<"U+A793", <<"U+A792">>>>, <<"U+A794", <<"U+A7C4">>>>, <<"U+A797", <<"U+A796">>>>,
      <<"U+A799", <<"U+A798">>>>, <<"U+A79B", <<"U+A79A">>>>, <<"U+A79D", <<"U+A79C">>>>,
      <<"U+A79F", <<"U+A79E">>>>, <<"U+A7A1", <<"U+A7A0">>>>, <<"U+A7A3", <<"U+A7A2">>>>,
      <<"U+A7A5", <<"U+A7A4">>>>, <<"U+A7A7", <<"U+A7A6">>>>, <<"U+A7A9", <<"U+A7A8">>>>,
      <<"U+A7B5", <<"U+A7B4">>>>, <<"U+A7B7", <<"U+A7B6">>>>, <<"U+A7B9", <<"U+A7B8">>>>,
      <<"U+A7BB", <<"U+A7BA">>>>, <<"U+A7BD", <<"U+A7BC">>>>, <<"U+A7BF", <<"U+A7BE">>>>,
      <<"U+A7C1", <<"U+A7C0">>>>, <<"U+A7C3", <<"U+A7C2">>>>, <<"U+A7C8", <<"U+A7C7">>>>,
      <<"U+A7CA", <<"U+A7C9">>>>, <<"U+A7CD", <<"U+A7CC">>>>, <<"U+A7CF", <<"U+A7CE">>>>,
      <<"U+A7D1", <<"U+A7D0">>>>, <<"U+A7D3", <<"U+A7D2">>>>, <<"U+A7D5", <<"U+A7D4">>>>,
      <<"U+A7D7", <<"U+A7D6">>>>, <<"U+A7D9", <<"U+A7D8">>>>, <<"U+A7DB", <<"U+A7DA">>>>,
      <<"U+A7F6", <<"U+A7F5">>>>, <<"U+AB53", <<"U+A7B3">>>>, <<"U+AB70", <<"U+13A0">>>>,
      <<"U+AB71", <<"U+13A1">>>>, <<"U+AB72", <<"U+13A2">>>>, <<"U+AB73", <<"U+13A3">>>>,
      <<"U+AB74", <<"U+13A4">>>>, <<"U+AB75", <<"U+13A5">>>>, <<"U+AB76", <<"U+13A6">>>>,
      <<"U+AB77", <<"U+13A7">>>>, <<"U+AB78", <<"U+13A8">>>>, <<"U+AB79", <<"U+13A9">>>>,
      <<"U+AB7A", <<"U+13AA">>>>, <<"U+AB7B", <<"U+13AB">>>>, <<"U+AB7C", <<"U+13AC">>>>,
      <<"U+AB7D", <<"U+13AD">>>>, <<"U+AB7E", <<"U+13AE">>>>, <<"U+AB7F", <<"U+13AF">>>>,
      <<"U+AB80", <<"U+13B0">>>>, <<"U+AB81", <<"U+13B1">>>>, <<"U+AB82", <<"U+13B2">>>>,
      <<"U+AB83", <<"U+13B3">>>>, <<"U+AB84", <<"U+13B4">>>>, <<"U+AB85", <<"U+13B5">>>>,
      <<"U+AB86", <<"U+13B6">>>>, <<"U+AB87", <<"U+13B7">>>>, <<"U+AB88", <<"U+13B8">>>>,
      <<"U+AB89", <<"U+13B9">>>>, <<"U+AB8A", <<"U+13BA">>>>, <<"U+AB8B", <<"U+13BB">>>>,
      <<"U+AB8C", <<"U+13BC">>>>, <<"U+AB8D", <<"U+13BD">>>>, <<"U+AB8E", <<"U+13BE">>>>,
      <<"U+AB8F", <<"U+13BF">>>>, <<"U+AB90", <<"U+13C0">>>>, <<"U+AB91", <<"U+13C1">>>>,
      <<"U+AB92", <<"U+13C2">>>>, <<"U+AB93", <<"U+13C3">>>>, <<"U+AB94", <<"U+13C4">>>>,
      <<"U+AB95", <<"U+13C5">>>>, <<"U+AB96", <<"U+13C6">>>>, <<"U+AB97", <<"U+13C7">>>>,
      <<"U+AB98", <<"U+13C8">>>>, <<"U+AB99", <<"U+13C9">>>>, <<"U+AB9A", <<"U+13CA">>>>,
      <<"U+AB9B", <<"U+13CB">>>>, <<"U+AB9C", <<"U+13CC">>>>, <<"U+AB9D", <<"U+13CD">>>>,
      <<"U+AB9E", <<"U+13CE">>>>, <<"U+AB9F", <<"U+13CF">>>>, <<"U+ABA0", <<"U+13D0">>>>,
      <<"U+ABA1", <<"U+13D1">>>>, <<"U+ABA2", <<"U+13D2">>>>, <<"U+ABA3", <<"U+13D3">>>>,
      <<"U+ABA4", <<"U+13D4">>>>, <<"U+ABA5", <<"U+13D5">>>>, <<"U+ABA6", <<"U+13D6">>>>,
      <<"U+ABA7", <<"U+13D7">>>>, <<"U+ABA8", <<"U+13D8">>>>, <<"U+ABA9", <<"U+13D9">>>>,
      <<"U+ABAA", <<"U+13DA">>>>, <<"U+ABAB", <<"U+13DB">>>>, <<"U+ABAC", <<"U+13DC">>>>,
      <<"U+ABAD", <<"U+13DD">>>>, <<"U+ABAE", <<"U+13DE">>>>, <<"U+ABAF", <<"U+13DF">>>>,
      <<"U+ABB0", <<"U+13E0">>>>, <<"U+ABB1", <<"U+13E1">>>>, <<"U+ABB2", <<"U+13E2">>>>,
      <<"U+ABB3", <<"U+13E3">>>>, <<"U+ABB4", <<"U+13E4">>>>, <<"U+ABB5", <<"U+13E5">>>>,
      <<"U+ABB6", <<"U+13E6">>>>, <<"U+ABB7", <<"U+13E7">>>>, <<"U+ABB8", <<"U+13E8">>>>,
      <<"U+ABB9", <<"U+13E9">>>>, <<"U+ABBA", <<"U+13EA">>>>, <<"U+ABBB", <<"U+13EB">>>>,
      <<"U+ABBC", <<"U+13EC">>>>, <<"U+ABBD", <<"U+13ED">>>>, <<"U+ABBE", <<"U+13EE">>>>,
      <<"U+ABBF", <<"U+13EF">>>>, <<"U+FB00", <<"F", "F">>>>, <<"U+FB01", <<"F", "I">>>>,
      <<"U+FB02", <<"F", "L">>>>, <<"U+FB03", <<"F", "F", "I">>>>,
      <<"U+FB04", <<"F", "F", "L">>>>, <<"U+FB05", <<"S", "T">>>>, <<"U+FB06", <<"S", "T">>>>,
      <<"U+FB13", <<"U+0544", "U+0546">>>>, <<"U+FB14", <<"U+0544", "U+0535">>>>,
      <<"U+FB15", <<"U+0544", "U+053B">>>>, <<"U+FB16", <<"U+054E", "U+0546">>>>,
      <<"U+FB17", <<"U+0544", "U+053D">>>>, <<"U+FF41", <<"U+FF21">>>>,
      <<"U+FF42", <<"U+FF22">>>>, <<"U+FF43", <<"U+FF23">>>>, <<"U+FF44", <<"U+FF24">>>>,
      <<"U+FF45", <<"U+FF25">>>>, <<"U+FF46", <<"U+FF26">>>>, <<"U+FF47", <<"U+FF27">>>>,
      <<"U+FF48", <<"U+FF28">>>>, <<"U+FF49", <<"U+FF29">>>>, <<"U+FF4A", <<"U+FF2A">>>>,
      <<"U+FF4B", <<"U+FF2B">>>>, <<"U+FF4C", <<"U+FF2C">>>>, <<"U+FF4D", <<"U+FF2D">>>>,
      <<"U+FF4E", <<"U+FF2E">>>>, <<"U+FF4F", <<"U+FF2F">>>>, <<"U+FF50", <<"U+FF30">>>>,
      <<"U+FF51", <<"U+FF31">>>>, <<"U+FF52", <<"U+FF32">>>>, <<"U+FF53", <<"U+FF33">>>>,
      <<"U+FF54", <<"U+FF34">>>>, <<"U+FF55", <<"U+FF35">>>>, <<"U+FF56", <<"U+FF36">>>>,
      <<"U+FF57", <<"U+FF37">>>>, <<"U+FF58", <<"U+FF38">>>>, <<"U+FF59", <<"U+FF39">>>>,
      <<"U+FF5A", <<"U+FF3A">>>>, <<"U+10428", <<"U+10400">>>>, <<"U+10429", <<"U+10401">>>>,
      <<"U+1042A", <<"U+10402">>>>, <<"U+1042B", <<"U+10403">>>>, <<"U+1042C", <<"U+10404">>>>,
      <<"U+1042D", <<"U+10405">>>>, <<"U+1042E", <<"U+10406">>>>, <<"U+1042F", <<"U+10407">>>>,
      <<"U+10430", <<"U+10408">>>>, <<"U+10431", <<"U+10409">>>>, <<"U+10432", <<"U+1040A">>>>,
      <<"U+10433", <<"U+1040B">>>>, <<"U+10434", <<"U+1040C">>>>, <<"U+10435", <<"U+1040D">>>>,
      <<"U+10436", <<"U+1040E">>>>, <<"U+10437", <<"U+1040F">>>>, <<"U+10438", <<"U+10410">>>>,
      <<"U+10439", <<"U+10411">>>>, <<"U+1043A", <<"U+10412">>>>, <<"U+1043B", <<"U+10413">>>>,
      <<"U+1043C", <<"U+10414">>>>, <<"U+1043D", <<"U+10415">>>>, <<"U+1043E", <<"U+10416">>>>,
      <<"U+1043F", <<"U+10417">>>>, <<"U+10440", <<"U+10418">>>>, <<"U+10441", <<"U+10419">>>>,
      <<"U+10442", <<"U+1041A">>>>, <<"U+10443", <<"U+1041B">>>>, <<"U+10444", <<"U+1041C">>>>,
      <<"U+10445", <<"U+1041D">>>>, <<"U+10446", <<"U+1041E">>>>, <<"U+10447", <<"U+1041F">>>>,
      <<"U+10448", <<"U+10420">>>>, <<"U+10449", <<"U+10421">>>>, <<"U+1044A", <<"U+10422">>>>,
      <<"U+1044B", <<"U+10423">>>>, <<"U+1044C", <<"U+10424">>>>, <<"U+1044D", <<"U+10425">>>>,
      <<"U+1044E", <<"U+10426">>>>, <<"U+1044F", <<"U+10427">>>>, <<"U+104D8", <<"U+104B0">>>>,
      <<"U+104D9", <<"U+104B1">>>>, <<"U+104DA", <<"U+104B2">>>>, <<"U+104DB", <<"U+104B3">>>>,
      <<"U+104DC", <<"U+104B4">>>>, <<"U+104DD", <<"U+104B5">>>>, <<"U+104DE", <<"U+104B6">>>>,
      <<"U+104DF", <<"U+104B7">>>>, <<"U+104E0", <<"U+104B8">>>>, <<"U+104E1", <<"U+104B9">>>>,
      <<"U+104E2", <<"U+104BA">>>>, <<"U+104E3", <<"U+104BB">>>>, <<"U+104E4", <<"U+104BC">>>>,
      <<"U+104E5", <<"U+104BD">>>>, <<"U+104E6", <<"U+104BE">>>>, <<"U+104E7", <<"U+104BF">>>>,
      <<"U+104E8", <<"U+104C0">>>>, <<"U+104E9", <<"U+104C1">>>>, <<"U+104EA", <<"U+104C2">>>>,
      <<"U+104EB", <<"U+104C3">>>>, <<"U+104EC", <<"U+104C4">>>>, <<"U+104ED", <<"U+104C5">>>>,
      <<"U+104EE", <<"U+104C6">>>>, <<"U+104EF", <<"U+104C7">>>>, <<"U+104F0", <<"U+104C8">>>>,
      <<"U+104F1", <<"U+104C9">>>>, <<"U+104F2", <<"U+104CA">>>>, <<"U+104F3", <<"U+104CB">>>>,
      <<"U+104F4", <<"U+104CC">>>>, <<"U+104F5", <<"U+104CD">>>>, <<"U+104F6", <<"U+104CE">>>>,
      <<"U+104F7", <<"U+104CF">>>>, <<"U+104F8", <<"U+104D0">>>>, <<"U+104F9", <<"U+104D1">>>>,
      <<"U+104FA", <<"U+104D2">>>>, <<"U+104FB", <<"U+104D3">>>>, <<"U+10597", <<"U+10570">>>>,
      <<"U+10598", <<"U+10571">>>>, <<"U+10599", <<"U+10572">>>>, <<"U+1059A", <<"U+10573">>>>,
      <<"U+1059B", <<"U+10574">>>>, <<"U+1059C", <<"U+10575">>>>, <<"U+1059D", <<"U+10576">>>>,
      <<"U+1059E", <<"U+10577">>>>, <<"U+1059F", <<"U+10578">>>>, <<"U+105A0", <<"U+10579">>>>,
      <<"U+105A1", <<"U+1057A">>>>, <<"U+105A3", <<"U+1057C">>>>, <<"U+105A4", <<"U+1057D">>>>,
      <<"U+105A5", <<"U+1057E">>>>, <<"U+105A6", <<"U+1057F">>>>, <<"U+105A7", <<"U+10580">>>>,
      <<"U+105A8", <<"U+10581">>>>, <<"U+105A9", <<"U+10582">>>>, <<"U+105AA", <<"U+10583">>>>,
      <<"U+105AB", <<"U+10584">>>>, <<"U+105AC", <<"U+10585">>>>, <<"U+105AD", <<"U+10586">>>>,
      <<"U+105AE", <<"U+10587">>>>, <<"U+105AF", <<"U+10588">>>>, <<"U+105B0", <<"U+10589">>>>,
      <<"U+105B1", <<"U+1058A">>>>, <<"U+105B3", <<"U+1058C">>>>, <<"U+105B4", <<"U+1058D">>>>,
      <<"U+105B5", <<"U+1058E">>>>, <<"U+105B6", <<"U+1058F">>>>, <<"U+105B7", <<"U+10590">>>>,
      <<"U+105B8", <<"U+10591">>>>, <<"U+105B9", <<"U+10592">>>>, <<"U+105BB", <<"U+10594">>>>,
      <<"U+105BC", <<"U+10595">>>>, <<"U+10CC0", <<"U+10C80">>>>, <<"U+10CC1", <<"U+10C81">>>>,
      <<"U+10CC2", <<"U+10C82">>>>, <<"U+10CC3", <<"U+10C83">>>>, <<"U+10CC4", <<"U+10C84">>>>,
      <<"U+10CC5", <<"U+10C85">>>>, <<"U+10CC6", <<"U+10C86">>>>, <<"U+10CC7", <<"U+10C87">>>>,
      <<"U+10CC8", <<"U+10C88">>>>, <<"U+10CC9", <<"U+10C89">>>>, <<"U+10CCA", <<"U+10C8A">>>>,
      <<"U+10CCB", <<"U+10C8B">>>>, <<"U+10CCC", <<"U+10C8C">>>>, <<"U+10CCD", <<"U+10C8D">>>>,
      <<"U+10CCE", <<"U+10C8E">>>>, <<"U+10CCF", <<"U+10C8F">>>>, <<"U+10CD0", <<"U+10C90">>>>,
      <<"U+10CD1", <<"U+10C91">>>>, <<"U+10CD2", <<"U+10C92">>>>, <<"U+10CD3", <<"U+10C93">>>>,
      <<"U+10CD4", <<"U+10C94">>>>, <<"U+10CD5", <<"U+10C95">>>>, <<"U+10CD6", <<"U+10C96">>>>,
      <<"U+10CD7", <<"U+10C97">>>>, <<"U+10CD8", <<"U+10C98">>>>, <<"U+10CD9", <<"U+10C99">>>>,
      <<"U+10CDA", <<"U+10C9A">>>>, <<"U+10CDB", <<"U+10C9B">>>>, <<"U+10CDC", <<"U+10C9C">>>>,
      <<"U+10CDD", <<"U+10C9D">>>>, <<"U+10CDE", <<"U+10C9E">>>>, <<"U+10CDF", <<"U+10C9F">>>>,
      <<"U+10CE0", <<"U+10CA0">>>>, <<"U+10CE1", <<"U+10CA1">>>>, <<"U+10CE2", <<"U+10CA2">>>>,
      <<"U+10CE3", <<"U+10CA3">>>>, <<"U+10CE4", <<"U+10CA4">>>>, <<"U+10CE5", <<"U+10CA5">>>>,
      <<"U+10CE6", <<"U+10CA6">>>>, <<"U+10CE7", <<"U+10CA7">>>>, <<"U+10CE8", <<"U+10CA8">>>>,
      <<"U+10CE9", <<"U+10CA9">>>>, <<"U+10CEA", <<"U+10CAA">>>>, <<"U+10CEB", <<"U+10CAB">>>>,
      <<"U+10CEC", <<"U+10CAC">>>>, <<"U+10CED", <<"U+10CAD">>>>, <<"U+10CEE", <<"U+10CAE">>>>,
      <<"U+10CEF", <<"U+10CAF">>>>, <<"U+10CF0", <<"U+10CB0">>>>, <<"U+10CF1", <<"U+10CB1">>>>,
      <<"U+10CF2", <<"U+10CB2">>>>, <<"U+10D70", <<"U+10D50">>>>, <<"U+10D71", <<"U+10D51">>>>,
      <<"U+10D72", <<"U+10D52">>>>, <<"U+10D73", <<"U+10D53">>>>, <<"U+10D74", <<"U+10D54">>>>,
      <<"U+10D75", <<"U+10D55">>>>, <<"U+10D76", <<"U+10D56">>>>, <<"U+10D77", <<"U+10D57">>>>,
      <<"U+10D78", <<"U+10D58">>>>, <<"U+10D79", <<"U+10D59">>>>, <<"U+10D7A", <<"U+10D5A">>>>,
      <<"U+10D7B", <<"U+10D5B">>>>, <<"U+10D7C", <<"U+10D5C">>>>, <<"U+10D7D", <<"U+10D5D">>>>,
      <<"U+10D7E", <<"U+10D5E">>>>, <<"U+10D7F", <<"U+10D5F">>>>, <<"U+10D80", <<"U+10D60">>>>,
      <<"U+10D81", <<"U+10D61">>>>, <<"U+10D82", <<"U+10D62">>>>, <<"U+10D83", <<"U+10D63">>>>,
      <<"U+10D84", <<"U+10D64">>>>, <<"U+10D85", <<"U+10D65">>>>, <<"U+118C0", <<"U+118A0">>>>,
      <<"U+118C1", <<"U+118A1">>>>, <<"U+118C2", <<"U+118A2">>>>, <<"U+118C3", <<"U+118A3">>>>,
      <<"U+118C4", <<"U+118A4">>>>, <<"U+118C5", <<"U+118A5">>>>, <<"U+118C6", <<"U+118A6">>>>,
      <<"U+118C7", <<"U+118A7">>>>, <<"U+118C8", <<"U+118A8">>>>, <<"U+118C9", <<"U+118A9">>>>,
      <<"U+118CA", <<"U+118AA">>>>, <<"U+118CB", <<"U+118AB">>>>, <<"U+118CC", <<"U+118AC">>>>,
      <<"U+118CD", <<"U+118AD">>>>, <<"U+118CE", <<"U+118AE">>>>, <<"U+118CF", <<"U+118AF">>>>,
      <<"U+118D0", <<"U+118B0">>>>, <<"U+118D1", <<"U+118B1">>>>, <<"U+118D2", <<"U+118B2">>>>,
      <<"U+118D3", <<"U+118B3">>>>, <<"U+118D4", <<"U+118B4">>>>, <<"U+118D5", <<"U+118B5">>>>,
      <<"U+118D6", <<"U+118B6">>>>, <<"U+118D7", <<"U+118B7">>>>, <<"U+118D8", <<"U+118B8">>>>,
      <<"U+118D9", <<"U+118B9">>>>, <<"U+118DA", <<"U+118BA">>>>, <<"U+118DB", <<"U+118BB">>>>,
      <<"U+118DC", <<"U+118BC">>>>, <<"U+118DD", <<"U+118BD">>>>, <<"U+118DE", <<"U+118BE">>>>,
      <<"U+118DF", <<"U+118BF">>>>, <<"U+16E60", <<"U+16E40">>>>, <<"U+16E61", <<"U+16E41">>>>,
      <<"U+16E62", <<"U+16E42">>>>, <<"U+16E63", <<"U+16E43">>>>, <<"U+16E64", <<"U+16E44">>>>,
      <<"U+16E65", <<"U+16E45">>>>, <<"U+16E66", <<"U+16E46">>>>, <<"U+16E67", <<"U+16E47">>>>,
      <<"U+16E68", <<"U+16E48">>>>, <<"U+16E69", <<"U+16E49">>>>, <<"U+16E6A", <<"U+16E4A">>>>,
      <<"U+16E6B", <<"U+16E4B">>>>, <<"U+16E6C", <<"U+16E4C">>>>, <<"U+16E6D", <<"U+16E4D">>>>,
      <<"U+16E6E", <<"U+16E4E">>>>, <<"U+16E6F", <<"U+16E4F">>>>, <<"U+16E70", <<"U+16E50">>>>,
      <<"U+16E71", <<"U+16E51">>>>, <<"U+16E72", <<"U+16E52">>>>, <<"U+16E73", <<"U+16E53">>>>,
      <<"U+16E74", <<"U+16E54">>>>, <<"U+16E75", <<"U+16E55">>>>, <<"U+16E76", <<"U+16E56">>>>,
      <<"U+16E77", <<"U+16E57">>>>, <<"U+16E78", <<"U+16E58">>>>, <<"U+16E79", <<"U+16E59">>>>,
      <<"U+16E7A", <<"U+16E5A">>>>, <<"U+16E7B", <<"U+16E5B">>>>, <<"U+16E7C", <<"U+16E5C">>>>,
      <<"U+16E7D", <<"U+16E5D">>>>, <<"U+16E7E", <<"U+16E5E">>>>, <<"U+16E7F", <<"U+16E5F">>>>,
      <<"U+16EBB", <<"U+16EA0">>>>, <<"U+16EBC", <<"U+16EA1">>>>, <<"U+16EBD", <<"U+16EA2">>>>,
      <<"U+16EBE", <<"U+16EA3">>>>, <<"U+16EBF", <<"U+16EA4">>>>, <<"U+16EC0", <<"U+16EA5">>>>,
      <<"U+16EC1", <<"U+16EA6">>>>, <<"U+16EC2", <<"U+16EA7">>>>, <<"U+16EC3", <<"U+16EA8">>>>,
      <<"U+16EC4", <<"U+16EA9">>>>, <<"U+16EC5", <<"U+16EAA">>>>, <<"U+16EC6", <<"U+16EAB">>>>,
      <<"U+16EC7", <<"U+16EAC">>>>, <<"U+16EC8", <<"U+16EAD">>>>, <<"U+16EC9", <<"U+16EAE">>>>,
      <<"U+16ECA", <<"U+16EAF">>>>, <<"U+16ECB", <<"U+16EB0">>>>, <<"U+16ECC", <<"U+16EB1">>>>,
      <<"U+16ECD", <<"U+16EB2">>>>, <<"U+16ECE", <<"U+16EB3">>>>, <<"U+16ECF", <<"U+16EB4">>>>,
      <<"U+16ED0", <<"U+16EB5">>>>, <<"U+16ED1", <<"U+16EB6">>>>, <<"U+16ED2", <<"U+16EB7">>>>,
      <<"U+16ED3", <<"U+16EB8">>>>, <<"U+1E922", <<"U+1E900">>>>, <<"U+1E923", <<"U+1E901">>>>,
      <<"U+1E924", <<"U+1E902">>>>, <<"U+1E925", <<"U+1E903">>>>, <<"U+1E926", <<"U+1E904">>>>,
      <<"U+1E927", <<"U+1E905">>>>, <<"U+1E928", <<"U+1E906">>>>, <<"U+1E929", <<"U+1E907">>>>,
      <<"U+1E92A", <<"U+1E908">>>>, <<"U+1E92B", <<"U+1E909">>>>, <<"U+1E92C", <<"U+1E90A">>>>,
      <<"U+1E92D", <<"U+1E90B">>>>, <<"U+1E92E", <<"U+1E90C">>>>, <<"U+1E92F", <<"U+1E90D">>>>,
      <<"U+1E930", <<"U+1E90E">>>>, <<"U+1E931", <<"U+1E90F">>>>, <<"U+1E932", <<"U+1E910">>>>,
      <<"U+1E933", <<"U+1E911">>>>, <<"U+1E934", <<"U+1E912">>>>, <<"U+1E935", <<"U+1E913">>>>,
      <<"U+1E936", <<"U+1E914">>>>, <<"U+1E937", <<"U+1E915">>>>, <<"U+1E938", <<"U+1E916">>>>,
      <<"U+1E939", <<"U+1E917">>>>, <<"U+1E93A", <<"U+1E918">>>>, <<"U+1E93B", <<"U+1E919">>>>,
      <<"U+1E93C", <<"U+1E91A">>>>, <<"U+1E93D", <<"U+1E91B">>>>, <<"U+1E93E", <<"U+1E91C">>>>,
      <<"U+1E93F", <<"U+1E91D">>>>, <<"U+1E940", <<"U+1E91E">>>>, <<"U+1E941", <<"U+1E91F">>>>,
      <<"U+1E942", <<"U+1E920">>>>, <<"U+1E943", <<"U+1E921">>>> }

UpperOf ==
    [ch \in {p[1] : p \in UnicodeUpper} |-> (CHOOSE p \in UnicodeUpper : p[1] = ch)[2]]

\* char::to_uppercase, the characters it yields: the capital of an ASCII
\* lower-case letter, the mapping of a character outside ASCII that has
\* one (I for the dotless i U+0131, S S for the sharp s U+00DF, F I for the
\* ligature U+FB01), and a character without an upper-case mapping (a
\* capital, a digit, a space, a sign) as it is.
UpperChar(ch) ==
    IF \E k \in 1..Len(LowerLetters) : SubSeq(LowerLetters, k, k) = ch
    THEN LET k == CHOOSE j \in 1..Len(LowerLetters) : SubSeq(LowerLetters, j, j) = ch
         IN <<SubSeq(UpperLetters, k, k)>>
    ELSE IF ch \in DOMAIN UpperOf THEN UpperOf[ch]
    ELSE <<ch>>

\* str::to_uppercase: the upper-case characters of every character, in
\* their order.
RECURSIVE to_uppercase(_)
to_uppercase(text) ==
    IF text = <<>> THEN <<>>
    ELSE UpperChar(Head(text)) \o to_uppercase(Tail(text))

\* EnvName::from(Option<T>): None is Unknown, a string is matched by its
\* upper-case form.
EnvNameFrom(value) ==
    IF value = None THEN "Unknown"
    ELSE LET upper == to_uppercase(value.val) IN
         CASE upper \in {Chars("L"), Chars("LOCAL")} -> "Local"
           [] upper \in {Chars("Q"), Chars("QA"), Chars("QE")} -> "QA"
           [] upper \in {Chars("D"), Chars("DEV"), Chars("DEVELOPMENT")} -> "Dev"
           [] upper \in {Chars("P"), Chars("PROD"), Chars("PRODUCTION")} -> "Prod"
           [] OTHER -> "Unknown"

is_local(e) == e = "Local"

is_unknown(e) == e = "Unknown"

\* EnvName::as_suffix is called by main.rs but is not among the sources;
\* the suffix table is the unified one of the specification.
as_suffix(e) ==
    CASE e = "QA" -> "qa"
      [] e = "Dev" -> "dev"
      [] e = "Prod" -> "prod"
      [] e = "Local" -> "local"
      [] e = "Unknown" -> "unknown"

\* EnvName::for_queue and EnvName::for_topic: the two suffix tables of
\* types.rs, which main.rs does not call.
for_queue(e) ==
    CASE e = "QA" -> "qa"
      [] e = "Local" -> "local"
      [] e = "Dev" -> "development"
      [] e = "Prod" -> "production"
      [] e = "Unknown" -> "unknown"

for_topic(e) ==
    CASE e = "QA" -> "qa"
      [] e = "Dev" -> "dev"
      [] e = "Prod" -> "prod"
      [] e = "Local" -> "local"
      [] e = "Unknown" -> "unknown"

\* ------------------------------------------------------- physical names

\* Mutant: the topic is suffixed in every environment, Unknown included.
TopicNameAlways(topic, e) == topic \o "-" \o as_suffix(e)

\* create_topic: the name sent to SNS.
TopicName(topic, e) ==
    IF is_unknown(e) THEN topic ELSE topic \o "-" \o as_suffix(e)

\* Mutant: the queue is suffixed from the table of for_queue.
QueueNameForQueue(queue, e) ==
    IF is_unknown(e) THEN queue ELSE queue \o "-" \o for_queue(e)

\* create_queue: the name sent to SQS.
QueueName(queue, e) ==
    IF is_unknown(e) THEN queue ELSE queue \o "-" \o as_suffix(e)

\* create_queue: the format! of the access policy.  The text is the JSON
\* document of the source with its layout whitespace dropped; queue is the
\* physical name (the shadowed `queue`).
PolicyDocument(queue, suffix, region, account_id) ==
    "{\"Version\":\"2008-10-17\",\"Statement\":[{\"Action\":\"sqs:SendMessage\","
    \o "\"Effect\":\"Allow\",\"Resource\":\"arn:aws:sqs:" \o region \o ":"
    \o account_id \o ":" \o queue \o "\",\"Condition\":{\"ArnLike\":"
    \o "{\"aws:SourceArn\":\"arn:aws:sns:" \o region \o ":" \o account_id \o ":*-"
    \o suffix \o "\"}},\"Principal\":{\"Service\":\"sns.amazonaws.com\"}},"
    \o "{\"Effect\":\"Allow\",\"Principal\":{\"AWS\":\"arn:aws:iam::" \o account_id
    \o ":root\"},\"Action\":\"SQS:*\",\"Resource\":\"arn:aws:sqs:" \o region \o ":"
    \o account_id \o ":" \o queue \o "\"}]}"

\* Mutant: without region or account id the queue is created without a
\* policy in every environment.
QueuePolicyLenient(queue, e, region, account_id) ==
    IF region # None /\ account_id # None
    THEN [ok |-> TRUE,
          policy |-> PolicyDocument(QueueName(queue, e), as_suffix(e),
                                    region.val, account_id.val)]
    ELSE [ok |-> TRUE, policy |-> ""]

\* Mutant: the policy names the queue by its logical name.
QueuePolicyLogical(queue, e, region, account_id) ==
    IF region # None /\ account_id # None
    THEN [ok |-> TRUE,
          policy |-> PolicyDocument(queue, as_suffix(e), region.val, account_id.val)]
    ELSE IF is_local(e) \/ is_unknown(e)
         THEN [ok |-> TRUE, policy |-> ""]
         ELSE [ok |-> FALSE, policy |-> ""]

\* create_queue: the access policy: the document, String::new() or bail!.
QueuePolicy(queue, e, region, account_id) ==
    IF region # None /\ account_id # None
    THEN [ok |-> TRUE,
          policy |-> PolicyDocument(QueueName(queue, e), as_suffix(e),
                                    region.val, account_id.val)]
    ELSE IF is_local(e) \/ is_unknown(e)
         THEN [ok |-> TRUE, policy |-> ""]
         ELSE [ok |-> FALSE, policy |-> ""]

\* ------------------------------------------------------- the u8 sums

\* A task's outcome as its JoinHandle yields it: Ok(value) or Err(JoinError).
Returned(v) == [st |-> "returned", val |-> v]
Panicked == [st |-> "panicked", val |-> 0]
Pending == [st |-> "pending", val |-> 0]

\* .map(|result| match result { Ok(value) => *value, Err(_) => 1 as u8 })
JoinValue(out) == IF out.st = "returned" THEN out.val ELSE 1

\* The mathematical sum of a sequence of naturals, by halves.
RECURSIVE SumNat(_)
SumNat(s) ==
    IF Len(s) = 0 THEN 0
    ELSE IF Len(s) = 1 THEN s[1]
    ELSE LET h == Len(s) \div 2
         IN SumNat(SubSeq(s, 1, h)) + SumNat(SubSeq(s, h + 1, Len(s)))

\* results.iter().sum::<u8>(): with overflow checks the addition panics,
\* without them it wraps modulo 2^8.
SumU8(s, checks) ==
    LET total == SumNat(s) IN
    IF total > U8Max /\ checks
    THEN [panic |-> TRUE, val |-> 0]
    ELSE [panic |-> FALSE, val |-> total % (U8Max + 1)]

\* ------------------------------------------------------- configuration

\* Mutant: the sentinel is recognised whatever its letter case.
IsSentinelAnyCase(queue) == queue \in {"unsubscribed", "Unsubscribed", "UNSUBSCRIBED"}

\* Mutant: no key is the sentinel: every key is a queue.
IsSentinelNever(queue) == FALSE

\* apply_queue_configuration: the sentinel test, a plain string comparison.
IsSentinel(queue) == queue = "unsubscribed"

\* PinnConfig values (BTreeMap<SQSQueueName, SQSQueueConfig>) the runs are
\* checked on: the sentinel alone, a key that differs from it in case only,
\* one queue with two topics, two queues sharing a topic, a queue beside the
\* sentinel, a queue without topics, and the empty configuration.
Configs ==
    { [q \in {"unsubscribed"} |-> <<"a", "b">>],
      [q \in {"Unsubscribed"} |-> <<"a">>],
      [q \in {"orders"} |-> <<"a", "b">>],
      [q \in {"orders", "billing"} |-> <<"a">>],
      [q \in {"orders", "unsubscribed"} |-> IF q = "orders" THEN <<"a">> ELSE <<"b">>],
      [q \in {"orders"} |-> <<>>],
      [q \in {} |-> <<>>] }

\* --env-name (or the app-env annotation) as given: absent, or an alias of
\* one of the environments in some letter case.
EnvArgs == {None, Some(Chars("qa")), Some(Chars("Dev")), Some(Chars("PROD")), Some(Chars("l"))}

Regions == {None, Some("us-east-1")}
AccountIds == {None, Some("123456789012")}

\* The program is executed twice in sequence against the same account.
Runs == {1, 2}

VARIABLES
    cfg,              \* PINN_CONFIG
    cfg_ok,           \* whether args.pinn_config() yields a configuration
    env_name,         \* --env-name, None when absent
    env,              \* CLUSTER_ENV, None until main sets it
    aws_region,       \* CLI_ARGS.aws_region
    aws_account_arg,  \* --aws-account-id as given on the command line
    aws_role_arn,     \* whether --aws-role-arn is given
    force_success,    \* CLI_ARGS.force_success
    overflow_checks,  \* whether the build panics on integer overflow
    topics,           \* the account: names of the SNS topics
    queues,           \* the account: SQS queues [name, url, arn, policy]
    subs,             \* the account: subscriptions [topic_arn, protocol, endpoint, arn]
    calls,            \* bag of the remote calls issued so far
    faults,           \* remote faults injected so far
    mpc,              \* per run: where main is
    exit_code,        \* per run: the process exit status, -1 while running
    account_cell,     \* per run: CLI_ARGS.aws_account_id
    args_borrow,      \* per run: the borrow state of the AtomicCell of CLI_ARGS
    gpc,              \* per run and group: where the group's task is
    gout,             \* per run and group: what the group's JoinHandle yields
    qurl,             \* per run and group: queue URL held by create_queue
    qarn,             \* per run and group: queue ARN returned by create_queue
    lpc,              \* per run, group and topic index: where the leaf task is
    lout,             \* per run, group and topic index: what its JoinHandle yields
    tarn,             \* per run and leaf: topic ARN returned by create_topic
    sarn,             \* per run and leaf: subscription ARN returned by subscribe
    left              \* per run: the account as the run left it at exit

vars == <<cfg, cfg_ok, env_name, env, aws_region, aws_account_arg, aws_role_arn, force_success,
          overflow_checks, topics, queues, subs, calls, faults, mpc, exit_code,
          account_cell, args_borrow, gpc, gout, qurl, qarn, lpc, lout, tarn, sarn, left>>

options == <<cfg, cfg_ok, env_name, aws_region, aws_account_arg, aws_role_arn,
             force_success, overflow_checks>>
inputs == <<options, env>>
account == <<topics, queues, subs>>
groupState == <<gpc, gout, qurl, qarn>>
leafState == <<lpc, lout, tarn, sarn>>
mainState == <<mpc, exit_code, account_cell, args_borrow, left>>

Groups == DOMAIN cfg
Leaves(g) == 1..Len(cfg[g])

NoExit == -1

\* ------------------------------------------------------- the account

\* What the services return for a name; the account id and region of the
\* real ARNs play no part in the engine.
TopicArn(name) == "arn:aws:sns:" \o name
QueueUrl(name) == "https://sqs/" \o name
QueueArn(name) == "arn:aws:sqs:" \o name
SubscriptionArn(topic_arn, endpoint) == topic_arn \o ":" \o endpoint

\* What the account holds before the program is run for the first time:
\* a topic, a queue and a subscription of somebody else.
ForeignTopics == {"legacy-topic"}
ForeignQueues == {[name |-> "legacy-queue", url |-> QueueUrl("legacy-queue"),
                   arn |-> QueueArn("legacy-queue"), policy |-> ""]}
ForeignSubs == {[topic_arn |-> TopicArn("legacy-topic"), protocol |-> "sqs",
                 endpoint |-> QueueArn("legacy-queue"),
                 arn |-> SubscriptionArn(TopicArn("legacy-topic"),
                                         QueueArn("legacy-queue"))]}

Ok(v) == [kind |-> "ok", val |-> v]
\* A fault: the call fails, or succeeds without the field it should carry.
Faulty == IF faults < MaxFaults
          THEN {[kind |-> "err", val |-> "TimeoutError"],
                [kind |-> "err", val |-> "ServiceError:Other"],
                [kind |-> "nofield", val |-> Unset]}
          ELSE {}

QueueExists(name) == \E q \in queues : q.name = name

\* SNS CreateTopic: idempotent by name.
CreateTopicResponses(name) == {Ok(TopicArn(name))} \cup Faulty

\* SQS CreateQueue: a queue of that name may be reported as existing.
CreateQueueResponses(name) ==
    {Ok(QueueUrl(name))}
      \cup (IF QueueExists(name)
            THEN {[kind |-> "err", val |-> "ServiceError:QueueNameExists"]} ELSE {})
      \cup Faulty

\* SQS GetQueueUrl.
GetQueueUrlResponses(name) ==
    (IF QueueExists(name) THEN {Ok(QueueUrl(name))}
     ELSE {[kind |-> "err", val |-> "ServiceError:QueueDoesNotExist"]}) \cup Faulty

\* SQS GetQueueAttributes(QueueArn) of the queue at a URL.
GetQueueAttributesResponses(url) ==
    {Ok(q.arn) : q \in {x \in queues : x.url = url}} \cup Faulty

\* SNS Subscribe: idempotent by (topic, protocol, endpoint).
SubscribeResponses(topic_arn, endpoint) ==
    {Ok(SubscriptionArn(topic_arn, endpoint))} \cup Faulty

\* STS GetCallerIdentity.
CallerIdentityResponses == {Ok("123456789012")} \cup Faulty

\* The request took effect on the account unless it failed.
Served(resp) == resp.kind # "err"

\* Mutant: the queue is subscribed as an HTTPS endpoint.
ProtocolHttps == "https"

\* create_subscription: .protocol("sqs")
Protocol == "sqs"

\* A remote call as issued, with the answer it got (of a fault, its kind):
\* a is the name, URL or topic ARN of the request, b its Policy attribute,
\* attribute name or endpoint, p the protocol of a subscription.
Call(r, g, i, op, a, b, resp) ==
    [run |-> r, g |-> g, i |-> i, op |-> op, a |-> a, b |-> b,
     p |-> IF op = "Subscribe" THEN Protocol ELSE Unset,
     res |-> IF resp \in Faulty THEN resp.kind ELSE resp.val]
Issue(c) == calls (+) SetToBag({c})
Fault(resp) == IF resp \in Faulty THEN faults + 1 ELSE faults

\* ------------------------------------------------------- initial state

\* The program is about to be run for the first time, the services having
\* a number of faults behind them already.
InitWith(injected) ==
    /\ cfg_ok \in BOOLEAN
    /\ cfg \in Configs  \* what the document describes, also when it cannot be read
    /\ env_name \in EnvArgs
    /\ env = Unset
    /\ aws_region \in Regions
    /\ aws_account_arg \in AccountIds
    /\ aws_role_arn \in BOOLEAN
    /\ force_success \in BOOLEAN
    /\ overflow_checks = FALSE  \* at most four outcomes are summed here
    /\ topics = ForeignTopics
    /\ queues = ForeignQueues
    /\ subs = ForeignSubs
    /\ calls = EmptyBag
    /\ faults = injected
    /\ mpc = [r \in Runs |-> IF r = 1 THEN "parse" ELSE "idle"]
    /\ exit_code = [r \in Runs |-> NoExit]
    /\ account_cell = [r \in Runs |-> aws_account_arg]
    /\ args_borrow = [r \in Runs |-> "free"]
    /\ gpc = [r \in Runs |-> [g \in Groups |-> "unspawned"]]
    /\ gout = [r \in Runs |-> [g \in Groups |-> Pending]]
    /\ qurl = [r \in Runs |-> [g \in Groups |-> Unset]]
    /\ qarn = [r \in Runs |-> [g \in Groups |-> Unset]]
    /\ lpc = [r \in Runs |-> [g \in Groups |-> [i \in Leaves(g) |-> "unspawned"]]]
    /\ lout = [r \in Runs |-> [g \in Groups |-> [i \in Leaves(g) |-> Pending]]]
    /\ tarn = [r \in Runs |-> [g \in Groups |-> [i \in Leaves(g) |-> Unset]]]
    /\ sarn = [r \in Runs |-> [g \in Groups |-> [i \in Leaves(g) |-> Unset]]]
    /\ left = [r \in Runs |-> <<>>]

Init == InitWith(0)

\* ------------------------------------------------------- main

RECURSIVE SeqOfSet(_)
SeqOfSet(S) == IF S = {} THEN <<>>
               ELSE LET x == CHOOSE y \in S : TRUE IN <<x>> \o SeqOfSet(S \ {x})

\* The values main collects from the group tasks (the order of the BTreeMap
\* plays no part in the sum).
GroupResults(r) ==
    LET ks == SeqOfSet(Groups) IN [k \in 1..Len(ks) |-> JoinValue(gout[r][ks[k]])]

\* The values a group collects from its leaf tasks.
LeafResults(r, g) == [i \in Leaves(g) |-> JoinValue(lout[r][g][i])]

\* main, from the sum to ExitCode::from: a panic of the sum ends the
\* process with the panic status before force_success is looked at.
ExitOf(results) ==
    LET s == SumU8(results, overflow_checks) IN
    IF s.panic THEN PanicExit
    ELSE IF force_success THEN 0 ELSE s.val

Exit(r, code) ==
    /\ mpc' = [mpc EXCEPT ![r] = "exited"]
    /\ exit_code' = [exit_code EXCEPT ![r] = code]
    /\ left' = [left EXCEPT ![r] = <<topics, queues, subs>>]

\* Mutant: the subscription tasks are spawned with the group tasks, without
\* waiting for the group's queue.
SpawnGroupsEager(r) ==
    IF Groups = {}
    THEN Exit(r, ExitOf(<<>>)) /\ UNCHANGED <<gpc, lpc>>
    ELSE /\ mpc' = [mpc EXCEPT ![r] = "join"]
         /\ gpc' = [gpc EXCEPT ![r] = [g \in Groups |-> "started"]]
         /\ lpc' = [lpc EXCEPT ![r] = [g \in Groups |-> [i \in Leaves(g) |->
                       IF IsSentinel(g) THEN "unspawned" ELSE "create_topic"]]]
         /\ UNCHANGED <<exit_code, left>>

\* main: tokio::spawn of one task per configured group, then join_all.
SpawnGroups(r) ==
    IF Groups = {}
    THEN Exit(r, ExitOf(<<>>)) /\ UNCHANGED <<gpc, lpc>>
    ELSE /\ mpc' = [mpc EXCEPT ![r] = "join"]
         /\ gpc' = [gpc EXCEPT ![r] = [g \in Groups |-> "started"]]
         /\ UNCHANGED <<exit_code, left, lpc>>

\* Mutant: main goes on although no configuration was acquired.
ConfigAssumed == TRUE

\* main: args.pinn_config().await yields Ok((name, config)).
ConfigAcquired == cfg_ok

\* main up to the STS call: the configuration is acquired and the
\* environment resolved from --env-name, or the process ends with status 2;
\* aws_client_configs bails on an explicit role ARN and
\* the process ends with status 3.
MainParse(r) ==
    /\ mpc[r] = "parse"
    /\ IF ~ConfigAcquired
       THEN Exit(r, ConfigErrorExit) /\ UNCHANGED <<gpc, lpc, env>>
       ELSE /\ env' = EnvNameFrom(env_name)
            /\ IF aws_role_arn
               THEN Exit(r, ClientConfigErrorExit) /\ UNCHANGED <<gpc, lpc>>
               ELSE IF aws_region # None /\ account_cell[r] = None
                    THEN /\ mpc' = [mpc EXCEPT ![r] = "sts"]
                         /\ UNCHANGED <<exit_code, left, gpc, lpc>>
                    ELSE SpawnGroups(r)
    /\ UNCHANGED <<options, account, calls, faults, account_cell, args_borrow, gout, qurl, qarn,
                   lout, tarn, sarn>>

\* The borrow state of an AtomicCell: "free" when no exclusive borrow is
\* out, "mut" while a RefMut lives.  The shared borrows of main
\* (main.rs:402, 413-414, 470, 474) and of create_queue (main.rs:109-110)
\* are taken and dropped within one step.

\* Mutant: the RefMut is bound to a variable that lives to the end of main
\* and is not dropped before the tasks are spawned.
KeepRefMut(r) == UNCHANGED args_borrow

\* main: the RefMut temporary of the assignment is dropped at the end of
\* the statement.
DropRefMut(r) == args_borrow' = [args_borrow EXCEPT ![r] = "free"]

\* main: get_caller_identity().send().await.unwrap().account(), and with an
\* account in the answer CLI_ARGS.get().unwrap().borrow_mut() and the
\* assignment of the account id through it; borrow_mut panics on a cell
\* that is borrowed.
MainSts(r) ==
    /\ mpc[r] = "sts"
    /\ \E resp \in CallerIdentityResponses :
         /\ faults' = Fault(resp)
         /\ calls' = Issue(Call(r, "", 0, "GetCallerIdentity", Unset, Unset, resp))
         /\ IF resp.kind = "err"
            THEN Exit(r, PanicExit) /\ UNCHANGED <<gpc, lpc, account_cell, args_borrow>>
            ELSE IF resp.kind # "ok"
            THEN SpawnGroups(r) /\ UNCHANGED <<account_cell, args_borrow>>
            ELSE IF args_borrow[r] # "free"
            THEN Exit(r, PanicExit) /\ UNCHANGED <<gpc, lpc, account_cell, args_borrow>>
            ELSE /\ args_borrow' = [args_borrow EXCEPT ![r] = "mut"]
                 /\ account_cell' = [account_cell EXCEPT ![r] = Some(resp.val)]
                 /\ mpc' = [mpc EXCEPT ![r] = "written"]
                 /\ UNCHANGED <<exit_code, left, gpc, lpc>>
    /\ UNCHANGED <<inputs, account, gout, qurl, qarn, lout, tarn, sarn>>

\* main, from the end of the assignment of main.rs:425 to join_all: the
\* RefMut is dropped, the clients are set and the tasks are spawned.
MainSpawn(r) ==
    /\ mpc[r] = "written"
    /\ DropRefMut(r)
    /\ SpawnGroups(r)
    /\ UNCHANGED <<inputs, account, calls, faults, account_cell, gout, qurl, qarn,
                   lout, tarn, sarn>>

\* Mutant: main goes on as soon as one group task has ended (select).
SomeGroupJoined(r) == \E g \in Groups : gout[r][g].st # "pending"

\* futures_util::future::join_all(tasks).await in main: every handle has
\* yielded.
AllGroupsJoined(r) == \A g \in Groups : gout[r][g].st # "pending"

\* main: join_all over the group tasks, the sum and the exit code.
MainJoin(r) ==
    /\ mpc[r] = "join"
    /\ AllGroupsJoined(r)
    /\ Exit(r, ExitOf(GroupResults(r)))
    /\ UNCHANGED <<inputs, account, calls, faults, account_cell, args_borrow,
                   groupState, leafState>>

\* The program is run again on the same inputs once the previous run ended.
StartRun(r) ==
    /\ r > 1
    /\ mpc[r] = "idle"
    /\ mpc[r - 1] = "exited"
    /\ mpc' = [mpc EXCEPT ![r] = "parse"]
    /\ UNCHANGED <<inputs, account, calls, faults, exit_code, account_cell, args_borrow, left,
                   groupState, leafState>>

\* ------------------------------------------------------- group tasks

\* The task of a group ends: what `match apply_queue_configuration(..).await
\* { Ok(value) => value, Err(value) => value }` yields, or a panic.
GroupEnds(r, g, out) ==
    /\ gpc' = [gpc EXCEPT ![r][g] = "done"]
    /\ gout' = [gout EXCEPT ![r][g] = out]

\* Mutant: a group whose queue failed yields 0 like one that succeeded.
GroupFailsSilent(r, g) == GroupEnds(r, g, Returned(0))

\* Mutant: a group whose queue failed counts one failure per listed topic.
GroupFailsPerTopic(r, g) == GroupEnds(r, g, Returned(Len(cfg[g])))

\* return Err(1): create_queue failed.
GroupFails(r, g) == GroupEnds(r, g, Returned(1))

\* The sum of a group's results, Ok(sum) or the panic of the addition.
GroupSum(results) ==
    LET s == SumU8(results, overflow_checks) IN
    IF s.panic THEN Panicked ELSE Returned(s.val)

\* config.topics.iter().for_each(.. tasks.push(tokio::spawn(..))), then
\* join_all: with no topic there is nothing to wait for.
SpawnLeaves(r, g) ==
    IF Leaves(g) = {}
    THEN GroupEnds(r, g, GroupSum(<<>>)) /\ UNCHANGED lpc
    ELSE /\ gpc' = [gpc EXCEPT ![r][g] = "join"]
         /\ lpc' = [lpc EXCEPT ![r][g] = [i \in Leaves(g) |-> "create_topic"]]
         /\ UNCHANGED gout

\* apply_queue_configuration, the sentinel branch.
GroupSpawnTopics(r, g) ==
    /\ gpc[r][g] = "started"
    /\ IsSentinel(g)
    /\ SpawnLeaves(r, g)
    /\ UNCHANGED <<inputs, account, calls, faults, mainState, qurl, qarn, lout, tarn, sarn>>

\* AtomicCell::try_borrow: None while the cell is exclusively borrowed.
TryBorrowFails(r) == args_borrow[r] = "mut"

\* create_queue: the match on CLI_ARGS.get().unwrap().try_borrow(): the
\* region and the account id of the cell, or (None, None) when the cell
\* cannot be borrowed.
BorrowedArgs(r) ==
    IF TryBorrowFails(r) THEN <<None, None>>
    ELSE <<aws_region, account_cell[r]>>

\* Mutant: every error of CreateQueue is taken for "queue name exists".
IsAnyError(resp) == resp.kind = "err"

\* Mutant: no error of CreateQueue is recovered.
IsNeverAdopted(resp) == FALSE

\* Mutant: the existing queue is looked up after a timeout of CreateQueue,
\* not after "queue name exists".
IsTimeout(resp) == resp.kind = "err" /\ resp.val = "TimeoutError"

\* Mutant: every ServiceError of CreateQueue is recovered, whatever its kind.
IsServiceError(resp) ==
    resp.kind = "err" /\ Len(resp.val) >= 12 /\ SubSeq(resp.val, 1, 12) = "ServiceError"

\* handle_create_queue_error: the error is adopted when it is a
\* ServiceError whose kind is QueueNameExists.
IsQueueNameExists(resp) == resp.kind = "err" /\ resp.val = "ServiceError:QueueNameExists"

\* create_queue: .attributes(QueueAttributeName::Policy, &policy) is part of
\* every request, also when the policy is the empty string; a request
\* without the attribute would carry None.
PolicyAttribute(policy) == policy

\* create_queue up to the answer of CreateQueue.
GroupCreateQueue(r, g) ==
    /\ gpc[r][g] = "started"
    /\ ~IsSentinel(g)
    /\ LET name == QueueName(g, env)
           args == BorrowedArgs(r)
           pol == QueuePolicy(g, env, args[1], args[2])
       IN IF ~pol.ok
          THEN GroupFails(r, g) /\ UNCHANGED <<queues, calls, faults, qurl>>
          ELSE \E resp \in CreateQueueResponses(name) :
                 /\ calls' = Issue(Call(r, g, 0, "CreateQueue", name,
                                         PolicyAttribute(pol.policy), resp))
                 /\ faults' = Fault(resp)
                 /\ queues' = IF Served(resp) /\ ~QueueExists(name)
                              THEN queues \cup {[name |-> name, url |-> QueueUrl(name),
                                                 arn |-> QueueArn(name),
                                                 policy |-> pol.policy]}
                              ELSE queues
                 /\ IF resp.kind = "ok"
                    THEN /\ qurl' = [qurl EXCEPT ![r][g] = resp.val]
                         /\ gpc' = [gpc EXCEPT ![r][g] = "get_queue_attributes"]
                         /\ UNCHANGED gout
                    ELSE IF IsQueueNameExists(resp)
                         THEN /\ gpc' = [gpc EXCEPT ![r][g] = "get_queue_url"]
                              /\ UNCHANGED <<gout, qurl>>
                         ELSE GroupFails(r, g) /\ UNCHANGED qurl
    /\ UNCHANGED <<inputs, topics, subs, mainState, qarn, leafState>>

\* Mutant: the existing queue is looked up by its logical name.
AdoptedLogicalName(g) == g

\* handle_create_queue_error: the `queue` it is handed is the physical name.
AdoptedQueueName(g) == QueueName(g, env)

\* handle_create_queue_error: GetQueueUrl of the existing queue.
GroupGetQueueUrl(r, g) ==
    /\ gpc[r][g] = "get_queue_url"
    /\ \E resp \in GetQueueUrlResponses(AdoptedQueueName(g)) :
         /\ calls' = Issue(Call(r, g, 0, "GetQueueUrl", AdoptedQueueName(g), Unset, resp))
         /\ faults' = Fault(resp)
         /\ IF resp.kind = "ok"
            THEN /\ qurl' = [qurl EXCEPT ![r][g] = resp.val]
                 /\ gpc' = [gpc EXCEPT ![r][g] = "get_queue_attributes"]
                 /\ UNCHANGED gout
            ELSE GroupFails(r, g) /\ UNCHANGED qurl
    /\ UNCHANGED <<inputs, account, mainState, qarn, leafState>>

\* get_queue_arn_from_url, and on its success the spawn of one
\* create_subscription task per topic.
GroupGetQueueAttributes(r, g) ==
    /\ gpc[r][g] = "get_queue_attributes"
    /\ \E resp \in GetQueueAttributesResponses(qurl[r][g]) :
         /\ calls' = Issue(Call(r, g, 0, "GetQueueAttributes", qurl[r][g], "QueueArn", resp))
         /\ faults' = Fault(resp)
         /\ IF resp.kind = "ok"
            THEN /\ qarn' = [qarn EXCEPT ![r][g] = resp.val]
                 /\ SpawnLeaves(r, g)
            ELSE GroupFails(r, g) /\ UNCHANGED <<qarn, lpc>>
    /\ UNCHANGED <<inputs, account, mainState, qurl, lout, tarn, sarn>>

\* Mutant: the join gives up at the first task that panicked (try_join_all).
AllLeavesJoinedOrOnePanicked(r, g) ==
    \/ \A i \in Leaves(g) : lout[r][g][i].st # "pending"
    \/ \E i \in Leaves(g) : lout[r][g][i].st = "panicked"

\* futures_util::future::join_all(tasks).await in apply_queue_configuration.
AllLeavesJoined(r, g) == \A i \in Leaves(g) : lout[r][g][i].st # "pending"

\* apply_queue_configuration: join_all over the leaf tasks and the sum.
GroupJoin(r, g) ==
    /\ gpc[r][g] = "join"
    /\ AllLeavesJoined(r, g)
    /\ GroupEnds(r, g, GroupSum(LeafResults(r, g)))
    /\ UNCHANGED <<inputs, account, calls, faults, mainState, qurl, qarn, leafState>>

\* ------------------------------------------------------- leaf tasks

\* The task of a leaf ends.
LeafEnds(r, g, i, out) ==
    /\ lpc' = [lpc EXCEPT ![r][g][i] = "done"]
    /\ lout' = [lout EXCEPT ![r][g][i] = out]

\* Mutant: a leaf whose work fails yields 0 like one that succeeded.
LeafFailureSilent(g) == Returned(0)

\* What a leaf's task yields when its work fails: the sentinel's task maps
\* Err(_) to 1, the subscription task unwraps Err(1) and panics.
LeafFailure(g) == IF IsSentinel(g) THEN Returned(1) ELSE Panicked

\* create_topic, called by the sentinel's task or by create_subscription.
LeafCreateTopic(r, g, i) ==
    /\ lpc[r][g][i] = "create_topic"
    /\ LET name == TopicName(cfg[g][i], env) IN
       \E resp \in CreateTopicResponses(name) :
         /\ calls' = Issue(Call(r, g, i, "CreateTopic", name, Unset, resp))
         /\ faults' = Fault(resp)
         /\ topics' = IF Served(resp) THEN topics \cup {name} ELSE topics
         /\ IF resp.kind = "ok"
            THEN IF IsSentinel(g)
                 THEN LeafEnds(r, g, i, Returned(0)) /\ UNCHANGED tarn
                 ELSE /\ lpc' = [lpc EXCEPT ![r][g][i] = "subscribe"]
                      /\ tarn' = [tarn EXCEPT ![r][g][i] = resp.val]
                      /\ UNCHANGED lout
            ELSE LeafEnds(r, g, i, LeafFailure(g)) /\ UNCHANGED tarn
    /\ UNCHANGED <<inputs, queues, subs, mainState, groupState, sarn>>

\* Mutant: the subscription is given the queue's URL as its endpoint.
EndpointUrl(r, g) == qurl[r][g]

\* The queue ARN a subscription task was spawned with (queue_arn.clone()).
Endpoint(r, g) == qarn[r][g]

\* create_subscription after create_topic: the Subscribe call.
LeafSubscribe(r, g, i) ==
    /\ lpc[r][g][i] = "subscribe"
    /\ LET topic_arn == tarn[r][g][i]
           queue_arn == Endpoint(r, g)
       IN \E resp \in SubscribeResponses(topic_arn, queue_arn) :
            /\ calls' = Issue(Call(r, g, i, "Subscribe", topic_arn, queue_arn, resp))
            /\ faults' = Fault(resp)
            /\ subs' = IF Served(resp)
                       THEN subs \cup {[topic_arn |-> topic_arn, protocol |-> Protocol,
                                        endpoint |-> queue_arn,
                                        arn |-> SubscriptionArn(topic_arn, queue_arn)]}
                       ELSE subs
            /\ IF resp.kind = "ok"
               THEN /\ sarn' = [sarn EXCEPT ![r][g][i] = resp.val]
                    /\ LeafEnds(r, g, i, Returned(0))
               ELSE LeafEnds(r, g, i, LeafFailure(g)) /\ UNCHANGED sarn
    /\ UNCHANGED <<inputs, topics, queues, mainState, groupState, tarn>>

\* ------------------------------------------------------- specification

Next ==
    \/ \E r \in Runs : MainParse(r)
    \/ \E r \in Runs : MainSts(r)
    \/ \E r \in Runs : MainSpawn(r)
    \/ \E r \in Runs : MainJoin(r)
    \/ \E r \in Runs : StartRun(r)
    \/ \E r \in Runs, g \in Groups : GroupSpawnTopics(r, g)
    \/ \E r \in Runs, g \in Groups : GroupCreateQueue(r, g)
    \/ \E r \in Runs, g \in Groups : GroupGetQueueUrl(r, g)
    \/ \E r \in Runs, g \in Groups : GroupGetQueueAttributes(r, g)
    \/ \E r \in Runs, g \in Groups : GroupJoin(r, g)
    \/ \E r \in Runs, g \in Groups : \E i \in Leaves(g) : LeafCreateTopic(r, g, i)
    \/ \E r \in Runs, g \in Groups : \E i \in Leaves(g) : LeafSubscribe(r, g, i)

Spec == Init /\ [][Next]_vars

\* The tokio runtime runs every spawned task and every remote call returns:
\* no step that can be taken is put off for ever.
FairSpec == Spec /\ WF_vars(Next)

\* The same program against services that answer every call: names and
\* documents are examined here.
InitCalm == InitWith(MaxFaults)

SpecCalm == InitCalm /\ [][Next]_vars

\* ------------------------------------------------------- two processes

\* Two processes of the program are started together on the same
\* arguments and the same configuration against one account, whose
\* services answer every call.
InitRace ==
    /\ cfg_ok = TRUE
    /\ cfg \in Configs
    /\ env_name \in EnvArgs
    /\ env = Unset
    /\ aws_region \in Regions
    /\ aws_account_arg \in AccountIds
    /\ aws_role_arn = FALSE
    /\ force_success = FALSE
    /\ overflow_checks = FALSE
    /\ topics = ForeignTopics
    /\ queues = ForeignQueues
    /\ subs = ForeignSubs
    /\ calls = EmptyBag
    /\ faults = MaxFaults
    /\ mpc = [r \in Runs |-> "parse"]
    /\ exit_code = [r \in Runs |-> NoExit]
    /\ account_cell = [r \in Runs |-> aws_account_arg]
    /\ args_borrow = [r \in Runs |-> "free"]
    /\ gpc = [r \in Runs |-> [g \in Groups |-> "unspawned"]]
    /\ gout = [r \in Runs |-> [g \in Groups |-> Pending]]
    /\ qurl = [r \in Runs |-> [g \in Groups |-> Unset]]
    /\ qarn = [r \in Runs |-> [g \in Groups |-> Unset]]
    /\ lpc = [r \in Runs |-> [g \in Groups |-> [i \in Leaves(g) |-> "unspawned"]]]
    /\ lout = [r \in Runs |-> [g \in Groups |-> [i \in Leaves(g) |-> Pending]]]
    /\ tarn = [r \in Runs |-> [g \in Groups |-> [i \in Leaves(g) |-> Unset]]]
    /\ sarn = [r \in Runs |-> [g \in Groups |-> [i \in Leaves(g) |-> Unset]]]
    /\ left = [r \in Runs |-> <<>>]

\* The steps of the two processes, interleaved at their remote calls.
NextRace ==
    \/ \E r \in Runs : MainParse(r)
    \/ \E r \in Runs : MainSts(r)
    \/ \E r \in Runs : MainSpawn(r)
    \/ \E r \in Runs : MainJoin(r)
    \/ \E r \in Runs, g \in Groups : GroupSpawnTopics(r, g)
    \/ \E r \in Runs, g \in Groups : GroupCreateQueue(r, g)
    \/ \E r \in Runs, g \in Groups : GroupGetQueueUrl(r, g)
    \/ \E r \in Runs, g \in Groups : GroupGetQueueAttributes(r, g)
    \/ \E r \in Runs, g \in Groups : GroupJoin(r, g)
    \/ \E r \in Runs, g \in Groups : \E i \in Leaves(g) : LeafCreateTopic(r, g, i)
    \/ \E r \in Runs, g \in Groups : \E i \in Leaves(g) : LeafSubscribe(r, g, i)

SpecRace == InitRace /\ [][NextRace]_vars

\* ------------------------------------------------------- the resolution

\* The strings of the length of a word that carry, at every position, the
\* small or the capital letter of the word.
RECURSIVE Spellings(_, _)
Spellings(small, capital) ==
    IF Len(small) = 0 THEN {""}
    ELSE {ch \o rest : ch \in {SubSeq(small, 1, 1), SubSeq(capital, 1, 1)},
                       rest \in Spellings(SubSeq(small, 2, Len(small)),
                                          SubSeq(capital, 2, Len(capital)))}

\* The words EnvName::from is given: every spelling of every alias, strings
\* that are no alias, strings with letters outside ASCII, the text <None>,
\* and no string at all.
Aliases ==
    { <<"l", "L">>, <<"local", "LOCAL">>, <<"q", "Q">>, <<"qa", "QA">>, <<"qe", "QE">>,
      <<"d", "D">>, <<"dev", "DEV">>, <<"development", "DEVELOPMENT">>,
      <<"p", "P">>, <<"prod", "PROD">>, <<"production", "PRODUCTION">> }
NoAliases ==
    { "", " ", "x", "qaa", "prd", "pro", "locale", "devel", "developmen", "productio",
      "staging", "test", "unknown", "none", "dev ", " dev", "DEV1", "q-a", "lo cal",
      "Prod.", "PRODUCTIONS" }
NonAsciiTexts ==
    { Chars("product") \o <<"U+0131">> \o Chars("on"),
      Chars("PRODUCT") \o <<"U+0131">> \o Chars("ON"),
      Chars("qa") \o <<"U+00DF">>,
      Chars("q") \o <<"U+00E9">>,
      Chars("loc") \o <<"U+017F">> \o Chars("l"),
      <<"U+00DF">>,
      Chars("q") \o <<"U+00FC">>,
      <<"U+FB01">>,
      <<"U+03C3", "U+03C2">>,
      Chars("de") \o <<"U+03BD">>,
      <<"U+0149">> }
RawEnvNames ==
    {Some(Chars(str)) : str \in UNION {Spellings(a[1], a[2]) : a \in Aliases}}
        \cup {Some(Chars(str)) : str \in NoAliases}
        \cup {Some(text) : text \in NonAsciiTexts}
        \cup {Some(Chars("<None>")), None}

\* main is started with an empty configuration and some --env-name, and
\* resolves it.
InitResolve ==
    /\ cfg_ok = TRUE
    /\ cfg = [q \in {} |-> <<>>]
    /\ env_name \in RawEnvNames
    /\ env = Unset
    /\ aws_region = None
    /\ aws_account_arg = None
    /\ aws_role_arn = FALSE
    /\ force_success = FALSE
    /\ overflow_checks = FALSE
    /\ topics = ForeignTopics
    /\ queues = ForeignQueues
    /\ subs = ForeignSubs
    /\ calls = EmptyBag
    /\ faults = 0
    /\ mpc = [r \in Runs |-> IF r = 1 THEN "parse" ELSE "idle"]
    /\ exit_code = [r \in Runs |-> NoExit]
    /\ account_cell = [r \in Runs |-> aws_account_arg]
    /\ args_borrow = [r \in Runs |-> "free"]
    /\ gpc = [r \in Runs |-> [g \in Groups |-> "unspawned"]]
    /\ gout = [r \in Runs |-> [g \in Groups |-> Pending]]
    /\ qurl = [r \in Runs |-> [g \in Groups |-> Unset]]
    /\ qarn = [r \in Runs |-> [g \in Groups |-> Unset]]
    /\ lpc = [r \in Runs |-> [g \in Groups |-> [i \in Leaves(g) |-> "unspawned"]]]
    /\ lout = [r \in Runs |-> [g \in Groups |-> [i \in Leaves(g) |-> Pending]]]
    /\ tarn = [r \in Runs |-> [g \in Groups |-> [i \in Leaves(g) |-> Unset]]]
    /\ sarn = [r \in Runs |-> [g \in Groups |-> [i \in Leaves(g) |-> Unset]]]
    /\ left = [r \in Runs |-> <<>>]

NextResolve == MainParse(1)

SpecResolve == InitResolve /\ [][NextResolve]_vars

\* ------------------------------------------------------- the sums

\* Numbers of failed leaves of a group, around the width of the counter.
FailCounts == {0, 1, U8Max \div 2 + 1, U8Max, U8Max + 1, MaxLeaves}

\* The first run, at the moment every leaf task of two groups of MaxLeaves
\* topics has ended, the first k[g] of each group having failed in
\* create_topic.  The call history and the second run play no part.
InitSums ==
    /\ cfg_ok = TRUE
    /\ cfg = [q \in {"orders", "billing"} |-> [i \in 1..MaxLeaves |-> "a"]]
    /\ env_name = Some(Chars("local"))
    /\ env = EnvNameFrom(env_name)
    /\ aws_region = None
    /\ aws_account_arg = None
    /\ aws_role_arn = FALSE
    /\ force_success \in BOOLEAN
    /\ overflow_checks \in BOOLEAN
    /\ queues = {[name |-> QueueName(g, env), url |-> QueueUrl(QueueName(g, env)),
                  arn |-> QueueArn(QueueName(g, env)), policy |-> ""] : g \in Groups}
    /\ calls = EmptyBag
    /\ faults = 0
    /\ mpc = [r \in Runs |-> IF r = 1 THEN "join" ELSE "idle"]
    /\ exit_code = [r \in Runs |-> NoExit]
    /\ account_cell = [r \in Runs |-> aws_account_arg]
    /\ args_borrow = [r \in Runs |-> "free"]
    /\ gpc = [r \in Runs |-> [g \in Groups |-> IF r = 1 THEN "join" ELSE "unspawned"]]
    /\ gout = [r \in Runs |-> [g \in Groups |-> Pending]]
    /\ qurl = [r \in Runs |-> [g \in Groups |->
                 IF r = 1 THEN QueueUrl(QueueName(g, env)) ELSE Unset]]
    /\ qarn = [r \in Runs |-> [g \in Groups |->
                 IF r = 1 THEN QueueArn(QueueName(g, env)) ELSE Unset]]
    /\ left = [r \in Runs |-> <<>>]
    /\ \E k \in [Groups -> FailCounts] :
         LET failed(r, g, i) == r = 1 /\ i <= k[g]
             ended(r, g, i) == r = 1 /\ i > k[g]
             t == TopicArn(TopicName("a", env))
         IN /\ lpc = [r \in Runs |-> [g \in Groups |-> [i \in Leaves(g) |->
                        IF r = 1 THEN "done" ELSE "unspawned"]]]
            /\ lout = [r \in Runs |-> [g \in Groups |-> [i \in Leaves(g) |->
                        IF failed(r, g, i) THEN Panicked
                        ELSE IF ended(r, g, i) THEN Returned(0) ELSE Pending]]]
            /\ tarn = [r \in Runs |-> [g \in Groups |-> [i \in Leaves(g) |->
                        IF ended(r, g, i) THEN t ELSE Unset]]]
            /\ sarn = [r \in Runs |-> [g \in Groups |-> [i \in Leaves(g) |->
                        IF ended(r, g, i)
                        THEN SubscriptionArn(t, QueueArn(QueueName(g, env))) ELSE Unset]]]
            /\ topics = IF \E g \in Groups : k[g] < MaxLeaves
                        THEN {TopicName("a", env)} ELSE {}
            /\ subs = {[topic_arn |-> t, protocol |-> "sqs",
                        endpoint |-> QueueArn(QueueName(g, env)),
                        arn |-> SubscriptionArn(t, QueueArn(QueueName(g, env)))] :
                        g \in {h \in Groups : k[h] < MaxLeaves}}

NextSums ==
    \/ \E g \in Groups : GroupJoin(1, g)
    \/ MainJoin(1)

SpecSums == InitSums /\ [][NextSums]_vars

\* ------------------------------------------------------- properties

\* The calls a group (its task and its leaf tasks) issued in a run.
CallsOf(r, g, ops) == {c \in BagToSet(calls) : c.run = r /\ c.g = g /\ c.op \in ops}

\* How many times a call was issued.
Times(S) == BagCardinality([c \in S |-> calls[c]])

\* ensure_queue of a group has completed successfully: CreateQueue was
\* issued and GetQueueAttributes returned the ARN the group holds.
EnsureQueueSucceeded(r, g) ==
    /\ qarn[r][g] # Unset
    /\ CallsOf(r, g, {"CreateQueue"}) # {}
    /\ \E c \in CallsOf(r, g, {"GetQueueAttributes"}) : c.res = qarn[r][g]

\* C1: in every group other than the sentinel, no CreateTopic and no
\* Subscribe call of the group is issued before the group's ensure_queue
\* has completed successfully, whatever the interleaving of the groups.
C1_QueueBeforeSubscriptions ==
    \A r \in Runs : \A g \in Groups :
        (g # "unsubscribed" /\ CallsOf(r, g, {"CreateTopic", "Subscribe"}) # {})
            => EnsureQueueSucceeded(r, g)

\* C1 witness: a group has subscribed while another group has not yet
\* issued its CreateQueue.
C1_Witness ==
    \E g \in Groups : \E h \in Groups \ {g} :
        /\ g # "unsubscribed" /\ h # "unsubscribed"
        /\ CallsOf(1, g, {"Subscribe"}) # {}
        /\ gpc[1][h] = "started"

\* A task outcome that counts as a failure.
Failed(out) == out.st = "panicked" \/ (out.st = "returned" /\ out.val # 0)

\* A step in which the leaf (g, i) of run r fails.
LeafFailsInStep(r, g, i) == lout[r][g][i].st = "pending" /\ Failed(lout'[r][g][i])

\* A step in which the queue creation of group g of run r fails.
QueueFailsInStep(r, g) ==
    /\ g # "unsubscribed"
    /\ gpc[r][g] \in {"started", "get_queue_url", "get_queue_attributes"}
    /\ gpc'[r][g] = "done"
    /\ qarn'[r][g] = Unset

\* No task of a run is still running.
AllTasksEnded(r) ==
    \A g \in Groups :
        /\ gpc[r][g] \in {"unspawned", "done"}
        /\ \A i \in Leaves(g) : lpc[r][g][i] \in {"unspawned", "done"}

\* A step that fails one leaf (with a panic of its task or without) or one
\* queue creation leaves every other leaf as it was, and an outcome once
\* yielded never changes.
C2_StepIsolation ==
    \A r \in Runs : \A g \in Groups : \A i \in Leaves(g) :
        /\ lout[r][g][i].st # "pending" => lout'[r][g][i] = lout[r][g][i]
        /\ (\E q \in Runs : \E h \in Groups :
               \/ QueueFailsInStep(q, h)
               \/ \E j \in Leaves(h) : <<q, h, j>> # <<r, g, i>> /\ LeafFailsInStep(q, h, j))
              => /\ lpc'[r][g][i] = lpc[r][g][i]
                 /\ lout'[r][g][i] = lout[r][g][i]
                 /\ tarn'[r][g][i] = tarn[r][g][i]
                 /\ sarn'[r][g][i] = sarn[r][g][i]

\* C2: a failure of one leaf operation (a topic creation, a queue creation
\* or a subscription), also one that panics the leaf's task, never cancels
\* or changes another leaf, and the process never ends while a task of the
\* run is still running.
C2_FailureIsolation ==
    /\ [](\A r \in Runs : mpc[r] = "exited" => AllTasksEnded(r))
    /\ [][C2_StepIsolation]_vars

\* C2 witness: the run has ended, one subscription task panicked and its
\* sibling in the same group completed with success.
C2_Witness ==
    \E g \in Groups : \E i \in Leaves(g) : \E j \in Leaves(g) :
        /\ mpc[1] = "exited"
        /\ lout[1][g][i] = Panicked
        /\ lout[1][g][j] = Returned(0)
        /\ sarn[1][g][j] # Unset

\* ensure_queue of a group has failed: the group ended without a queue ARN.
QueueFailed(r, g) == g # "unsubscribed" /\ gpc[r][g] = "done" /\ qarn[r][g] = Unset

\* The number of leaf operations of a run that failed: the topic creations
\* and subscriptions whose task yielded a failure, and the queue creations
\* that failed.
FailedLeaves(r) ==
    Cardinality(UNION {{<<g, i>> : i \in {j \in Leaves(g) : Failed(lout[r][g][j])}} :
                       g \in Groups})
      + Cardinality({g \in Groups : QueueFailed(r, g)})

\* The run went through the reconciliation to its end: the configuration
\* and the client configuration were acquired, the identity call did not
\* panic main, every group ended.
Reconciled(r) ==
    /\ cfg_ok /\ ~aws_role_arn
    /\ mpc[r] = "exited"
    /\ \A g \in Groups : gpc[r][g] = "done"
    /\ ~\E c \in BagToSet(calls) : c.run = r /\ c.op = "GetCallerIdentity" /\ c.res = "err"

\* C3: without force_success the exit code of a run is the exact number of
\* leaf operations that failed.
C3_ExitCodeIsFailureCount ==
    (Reconciled(1) /\ ~force_success) => exit_code[1] = FailedLeaves(1)

\* C4: the failure count saturates at 255: with more than 255 failed leaves
\* the exit code is 255, and with at least one failed leaf and no
\* force_success it is never 0.
C4_FailureCountSaturates ==
    (Reconciled(1) /\ ~force_success) =>
        /\ FailedLeaves(1) > U8Max => exit_code[1] = U8Max
        /\ FailedLeaves(1) >= 1 => exit_code[1] # 0

\* C5: with force_success the run exits with 0 once all leaves have
\* completed, whatever the number of failed leaves.
C5_ForceSuccessExitsZero ==
    (Reconciled(1) /\ force_success) => exit_code[1] = 0

\* The group's task has gone past its first step.
GroupActed(r, g) == gpc[r][g] \notin {"unspawned", "started"}

\* C6: the group whose key is exactly "unsubscribed" issues one CreateTopic
\* per listed topic, with the topic's physical name, and no CreateQueue,
\* GetQueueUrl, GetQueueAttributes or Subscribe; a key that differs from it
\* (also in letter case only) is an ordinary queue: its first call is
\* CreateQueue, and it creates no topic without a queue.
C6_SentinelTopicsOnly ==
    \A r \in Runs : \A g \in Groups :
        IF g = "unsubscribed"
        THEN /\ CallsOf(r, g, {"CreateQueue", "GetQueueUrl", "GetQueueAttributes",
                               "Subscribe"}) = {}
             /\ \A i \in Leaves(g) :
                  LET made == {c \in CallsOf(r, g, {"CreateTopic"}) : c.i = i} IN
                  /\ Times(made) <= 1
                  /\ \A c \in made : c.a = TopicName(cfg[g][i], env)
                  /\ gpc[r][g] = "done" => Times(made) = 1
        ELSE /\ CallsOf(r, g, {"CreateTopic"}) # {} => CallsOf(r, g, {"CreateQueue"}) # {}
             /\ (GroupActed(r, g) /\ QueuePolicy(g, env, aws_region, account_cell[r]).ok)
                   => Times(CallsOf(r, g, {"CreateQueue"})) = 1

\* C6 witness: the sentinel group has ended with both of its topics created.
C6_Witness ==
    /\ "unsubscribed" \in Groups
    /\ gpc[1]["unsubscribed"] = "done"
    /\ Len(cfg["unsubscribed"]) = 2
    /\ \A i \in Leaves("unsubscribed") : lout[1]["unsubscribed"][i] = Returned(0)

\* A logged call that was answered with the value asked for.
Answered(c) ==
    c.res \notin {"err", "nofield", "ServiceError:QueueNameExists",
                  "ServiceError:QueueDoesNotExist"}

\* C7: when CreateQueue fails with "queue name already exists", ensure_queue
\* asks GetQueueUrl for the physical name once, then GetQueueAttributes for
\* the URL it got, and succeeds with that URL and ARN when both calls
\* succeed; when CreateQueue fails with another error, ensure_queue fails
\* and issues neither GetQueueUrl nor GetQueueAttributes.
C7_AdoptionOnNameExists ==
    \A r \in Runs : \A g \in Groups :
        LET cq == CallsOf(r, g, {"CreateQueue"})
            gu == CallsOf(r, g, {"GetQueueUrl"})
            ga == CallsOf(r, g, {"GetQueueAttributes"})
        IN /\ (\E c \in cq : c.res = "ServiceError:QueueNameExists") =>
                /\ gpc[r][g] # "get_queue_url" =>
                     /\ Times(gu) = 1
                     /\ \A u \in gu : \A c \in cq : u.a = c.a
                /\ \A u \in gu : Answered(u) =>
                     /\ gpc[r][g] # "get_queue_attributes" => Times(ga) = 1
                     /\ \A a \in ga : a.a = u.res
                     /\ \A a \in ga : Answered(a) =>
                          /\ ~QueueFailed(r, g)
                          /\ qurl[r][g] = u.res
                          /\ qarn[r][g] = a.res
                /\ (\A u \in gu : ~Answered(u)) => ga = {}
           /\ (\E c \in cq : c.res = "err") =>
                /\ QueueFailed(r, g)
                /\ gu = {}
                /\ ga = {}

\* C7 witness: a queue was adopted: CreateQueue answered "name exists",
\* GetQueueUrl and GetQueueAttributes succeeded and the group holds the ARN.
C7_Witness ==
    \E r \in Runs : \E g \in Groups :
        /\ \E c \in CallsOf(r, g, {"CreateQueue"}) : c.res = "ServiceError:QueueNameExists"
        /\ \E u \in CallsOf(r, g, {"GetQueueUrl"}) : Answered(u)
        /\ qarn[r][g] = QueueArn(QueueName(g, env))

\* No call of a set was answered with an injected fault.
NoFaultIn(S) == \A c \in S : c.res \notin {"err", "nofield"}

QueueOps == {"CreateQueue", "GetQueueUrl", "GetQueueAttributes"}

\* ensure_queue of a group has returned.
EnsureQueueReturned(r, g) ==
    GroupActed(r, g) /\ gpc[r][g] \notin {"get_queue_url", "get_queue_attributes"}

\* C8: ensure_queue is idempotent.  When the call of the first run has
\* succeeded and the second run calls it for the same logical name, the
\* same environment and the same region and account id, and the services
\* answer its calls, the second call succeeds although the queue exists,
\* returns the same URL and ARN, and exactly one queue of that physical
\* name exists.
C8_EnsureQueueIdempotent ==
    \A g \in Groups :
        (/\ g # "unsubscribed"
         /\ EnsureQueueSucceeded(1, g)
         /\ EnsureQueueReturned(2, g)
         /\ account_cell[2] = account_cell[1]
         /\ NoFaultIn(CallsOf(2, g, QueueOps)))
        => /\ EnsureQueueSucceeded(2, g)
           /\ qurl[2][g] = qurl[1][g]
           /\ qarn[2][g] = qarn[1][g]
           /\ Cardinality({q \in queues : q.name = QueueName(g, env)}) = 1

\* C8 witness: the second run adopted the queue the first run created and
\* holds the same URL and ARN.
C8_Witness ==
    \E g \in Groups :
        /\ EnsureQueueSucceeded(1, g)
        /\ EnsureQueueSucceeded(2, g)
        /\ \E u \in CallsOf(2, g, {"GetQueueUrl"}) : Answered(u)
        /\ env # "Unknown"
        /\ <<qurl[2][g], qarn[2][g]>> = <<qurl[1][g], qarn[1][g]>>

\* The calls one leaf issued in a run.
LeafCalls(r, g, i) == {c \in CallsOf(r, g, {"CreateTopic", "Subscribe"}) : c.i = i}

\* C9: ensure_subscription is idempotent.  When both runs have completed it
\* for the same queue ARN and the same logical topic and the services
\* answered its calls, both calls succeeded with the same subscription ARN,
\* and the account holds exactly one topic of that name and exactly one
\* subscription of that topic to that queue.
C9_EnsureSubscriptionIdempotent ==
    \A g \in Groups : \A i \in Leaves(g) :
        (/\ g # "unsubscribed"
         /\ lpc[1][g][i] = "done" /\ lpc[2][g][i] = "done"
         /\ qarn[1][g] = qarn[2][g]
         /\ NoFaultIn(LeafCalls(1, g, i) \cup LeafCalls(2, g, i)))
        => /\ lout[1][g][i] = Returned(0)
           /\ lout[2][g][i] = Returned(0)
           /\ sarn[1][g][i] # Unset
           /\ sarn[2][g][i] = sarn[1][g][i]
           /\ tarn[2][g][i] = tarn[1][g][i]
           /\ Cardinality({t \in topics : TopicArn(t) = tarn[1][g][i]}) = 1
           /\ Cardinality({x \in subs : x.topic_arn = tarn[1][g][i]
                                           /\ x.endpoint = qarn[1][g]}) = 1
           /\ \A x \in subs : x.arn = sarn[1][g][i] =>
                 x.topic_arn = tarn[1][g][i] /\ x.endpoint = qarn[1][g]

\* C9 witness: a subscription was ensured in both runs, with one ARN.
C9_Witness ==
    \E g \in Groups : \E i \in Leaves(g) :
        /\ lout[1][g][i] = Returned(0) /\ lout[2][g][i] = Returned(0)
        /\ sarn[1][g][i] # Unset
        /\ sarn[2][g][i] = sarn[1][g][i]

\* The calls of a run.
RunCalls(r) == {c \in BagToSet(calls) : c.run = r}

\* C10: the reconciliation is idempotent.  When the first run has ended with
\* 0 failures and the second run, on the same configuration and
\* environment and with the services answering its calls, has ended, the
\* second run has 0 failures too, exits with 0 and leaves the topics,
\* queues and subscriptions of the account as the first run left them.
C10_RunTwiceIdempotent ==
    (/\ Reconciled(1) /\ FailedLeaves(1) = 0
     /\ mpc[2] = "exited"
     /\ NoFaultIn(RunCalls(2)))
    => /\ Reconciled(2)
       /\ FailedLeaves(2) = 0
       /\ exit_code[2] = 0
       /\ left[2] = left[1]
       /\ <<topics, queues, subs>> = left[1]

\* C10 witness: both runs ended with 0 failures on a configuration with a
\* queue and a subscription, and the account is as the first run left it.
C10_Witness ==
    /\ Reconciled(1) /\ FailedLeaves(1) = 0
    /\ Reconciled(2) /\ FailedLeaves(2) = 0
    /\ queues # {} /\ subs # {}
    /\ \E c \in RunCalls(2) : c.op = "Subscribe"
    /\ left[2] = left[1]

\* The region and the account id an ensure_queue of a run is handed are
\* both known.
BothKnown(r) == aws_region # None /\ account_cell[r] # None

\* C11: when region and account id are not both known, ensure_queue of a
\* queue group fails without a CreateQueue (or any other queue call) in an
\* environment other than Local and Unknown, and issues its CreateQueue in
\* Local and Unknown; no queue of the configuration exists without a policy
\* outside Local and Unknown.
C11_PolicyUnresolvable ==
    /\ \A r \in Runs : \A g \in Groups :
          (g # "unsubscribed" /\ GroupActed(r, g) /\ ~BothKnown(r)) =>
              IF env \in {"Local", "Unknown"}
              THEN Times(CallsOf(r, g, {"CreateQueue"})) = 1
              ELSE /\ QueueFailed(r, g)
                   /\ CallsOf(r, g, QueueOps \cup {"CreateTopic", "Subscribe"}) = {}
    /\ \A q \in queues \ ForeignQueues :
          env \notin {"Local", "Unknown"} => q.policy # ""

\* C11 witness: in Prod, with a region but no account id (the identity
\* service returned none), a queue group has failed without any call.
C11_Witness ==
    \E g \in Groups :
        /\ env = "Prod" /\ aws_region # None /\ account_cell[1] = None
        /\ QueueFailed(1, g)
        /\ CallsOf(1, g, QueueOps) = {}
        /\ mpc[1] = "exited"

\* C12: with region and account id both absent, in Local and in Unknown,
\* the CreateQueue request carries no Policy attribute at all.
C12_NoPolicyAttribute ==
    \A r \in Runs : \A g \in Groups : \A c \in CallsOf(r, g, {"CreateQueue"}) :
        (aws_region = None /\ account_cell[r] = None /\ env \in {"Local", "Unknown"})
            => c.b = Unset

\* The positions at which a text occurs in a document.
Occurrences(doc, text) ==
    {k \in 1..(Len(doc) - Len(text) + 1) : SubSeq(doc, k, k + Len(text) - 1) = text}

\* The values of the string members of a name in a JSON document.
JsonStrings(doc, key) ==
    LET member == "\"" \o key \o "\":\"" IN
    { LET from == k + Len(member)
          close == CHOOSE j \in from..Len(doc) :
                       /\ SubSeq(doc, j, j) = "\""
                       /\ \A i \in from..(j - 1) : SubSeq(doc, i, i) # "\""
      IN SubSeq(doc, from, close - 1) : k \in Occurrences(doc, member) }

\* The two statements of a policy document, in their order.
StatementsOf(doc) ==
    LET cut == CHOOSE k \in Occurrences(doc, "},{") : TRUE
    IN <<SubSeq(doc, 1, cut), SubSeq(doc, cut + 2, Len(doc))>>

\* C13: with region and account id both known, the Policy attribute of
\* CreateQueue is a document of two statements: the first allows
\* sqs:SendMessage to the service sns.amazonaws.com on the resource
\* arn:aws:sqs:<region>:<account>:<name sent to CreateQueue> under the
\* aws:SourceArn pattern arn:aws:sns:<region>:<account>:*-<suffix>, the
\* second allows SQS:* on the same resource to the root of the account; for
\* us-east-1, 123456789012, Prod and orders the resource and the pattern
\* are the two ARNs of the specification.
C13_PolicyDocument ==
    \A r \in Runs : \A g \in Groups : \A c \in CallsOf(r, g, {"CreateQueue"}) :
        BothKnown(r) =>
            LET st == StatementsOf(c.b)
                where == aws_region.val \o ":" \o account_cell[r].val \o ":"
                resource == "arn:aws:sqs:" \o where \o c.a
                source == "arn:aws:sns:" \o where \o "*-" \o as_suffix(env)
            IN /\ Cardinality(Occurrences(c.b, "},{")) = 1
               /\ JsonStrings(st[1], "Effect") = {"Allow"}
               /\ JsonStrings(st[1], "Action") = {"sqs:SendMessage"}
               /\ JsonStrings(st[1], "Service") = {"sns.amazonaws.com"}
               /\ JsonStrings(st[1], "AWS") = {}
               /\ JsonStrings(st[1], "Resource") = {resource}
               /\ JsonStrings(st[1], "aws:SourceArn") = {source}
               /\ JsonStrings(st[2], "Effect") = {"Allow"}
               /\ JsonStrings(st[2], "Action") = {"SQS:*"}
               /\ JsonStrings(st[2], "AWS") = {"arn:aws:iam::" \o account_cell[r].val \o ":root"}
               /\ JsonStrings(st[2], "Resource") = {resource}
               /\ JsonStrings(st[2], "aws:SourceArn") = {}
               /\ (env = "Prod" /\ g = "orders") =>
                     /\ resource = "arn:aws:sqs:us-east-1:123456789012:orders-prod"
                     /\ source = "arn:aws:sns:us-east-1:123456789012:*-prod"

\* C13 witness: in Prod, with region us-east-1 and account 123456789012,
\* the queue orders was created with a policy.
C13_Witness ==
    /\ env = "Prod" /\ aws_region = Some("us-east-1")
    /\ account_cell[1] = Some("123456789012")
    /\ \E c \in CallsOf(1, "orders", {"CreateQueue"}) : c.b # "" /\ Answered(c)
    /\ \E q \in queues : q.name = "orders-prod" /\ q.policy # ""

\* The physical name of the specification.
PhysicalName(logical, e) ==
    IF e = "Unknown" THEN logical ELSE logical \o "-" \o as_suffix(e)

\* C14: the name sent to CreateTopic and the name sent to CreateQueue (and
\* looked up by GetQueueUrl) is the logical name unchanged in Unknown and
\* the logical name, "-" and the suffix of the environment in every other
\* environment, whatever the run, the region, the account id and the
\* answers of the services.
C14_PhysicalNames ==
    \A r \in Runs : \A g \in Groups :
        /\ \A c \in CallsOf(r, g, {"CreateQueue", "GetQueueUrl"}) :
              c.a = PhysicalName(g, env)
        /\ \A c \in CallsOf(r, g, {"CreateTopic"}) :
              c.a = PhysicalName(cfg[g][c.i], env)
        /\ env = "Unknown" =>
              /\ \A c \in CallsOf(r, g, {"CreateQueue"}) : c.a = g
              /\ \A c \in CallsOf(r, g, {"CreateTopic"}) : c.a = cfg[g][c.i]

\* C14 witness: in Unknown a queue and a topic were created under their
\* logical names.
C14_Witness ==
    /\ env = "Unknown"
    /\ \E g \in Groups :
          /\ \E c \in CallsOf(1, g, {"CreateQueue"}) : c.a = g
          /\ \E c \in CallsOf(1, g, {"CreateTopic"}) : c.a = cfg[g][c.i]

\* What a name sent to a service carries after the logical name and "-".
AppendedSuffix(name, logical) == SubSeq(name, Len(logical) + 2, Len(name))

\* What an aws:SourceArn pattern carries after ":*-".
PatternSuffix(pattern) ==
    LET star == CHOOSE k \in Occurrences(pattern, ":*-") : TRUE
    IN SubSeq(pattern, star + 3, Len(pattern))

\* The suffixes in use so far: those appended to queue names, those
\* appended to topic names and those of the SourceArn patterns.
QueueSuffixes ==
    {AppendedSuffix(c.a, c.g) :
        c \in {d \in BagToSet(calls) : d.op = "CreateQueue" /\ d.a # d.g}}
TopicSuffixes ==
    {AppendedSuffix(c.a, cfg[c.g][c.i]) :
        c \in {d \in BagToSet(calls) : d.op = "CreateTopic" /\ d.a # cfg[d.g][d.i]}}
SourceArnSuffixes ==
    UNION {{PatternSuffix(x) : x \in JsonStrings(c.b, "aws:SourceArn")} :
              c \in {d \in BagToSet(calls) : d.op = "CreateQueue"}}

\* C15: in every environment one suffix is in use: whatever is appended to
\* a queue name, appended to a topic name or named by the SourceArn
\* pattern of a policy is the same string.
C15_OneSuffix ==
    Cardinality(QueueSuffixes \cup TopicSuffixes \cup SourceArnSuffixes) <= 1

\* C15 witness: in Dev a queue name, a topic name and a SourceArn pattern
\* all carry a suffix.
C15_Witness ==
    /\ env = "Dev"
    /\ QueueSuffixes # {} /\ TopicSuffixes # {} /\ SourceArnSuffixes # {}

\* Every remote call of a run succeeded: it was answered with what it was
\* asked for.
AllCallsSucceeded(r) == \A c \in RunCalls(r) : Answered(c)

\* An access policy can be had: region and account id are known, or the
\* environment needs none.
PolicyResolvable(r) == BothKnown(r) \/ env \in {"Local", "Unknown"}

\* The calls of a run are exactly those of the configuration: one
\* CreateQueue per queue key, one CreateTopic per listed topic, one
\* Subscribe per listed topic of a queue key, with protocol sqs, the ARN
\* CreateTopic returned for that topic and the ARN GetQueueAttributes
\* returned for the queue of the same group.
ExactCalls(r) ==
    \A g \in Groups :
        LET cq == CallsOf(r, g, {"CreateQueue"})
            ga == CallsOf(r, g, {"GetQueueAttributes"})
            ct(i) == {c \in CallsOf(r, g, {"CreateTopic"}) : c.i = i}
            su(i) == {c \in CallsOf(r, g, {"Subscribe"}) : c.i = i}
        IN /\ Times(cq) = (IF g = "unsubscribed" THEN 0 ELSE 1)
           /\ \A c \in cq : c.a = PhysicalName(g, env)
           /\ \A i \in Leaves(g) :
                 /\ Times(ct(i)) = 1
                 /\ \A c \in ct(i) : c.a = PhysicalName(cfg[g][i], env)
                 /\ Times(su(i)) = (IF g = "unsubscribed" THEN 0 ELSE 1)
                 /\ \A c \in su(i) :
                       /\ c.p = "sqs"
                       /\ \A t \in ct(i) : c.a = t.res
                       /\ Times(ga) = 1
                       /\ \A a \in ga : c.b = a.res /\ \A q \in cq : a.a = q.res
                       /\ \A h \in Groups \ {g} :
                             \A a \in CallsOf(r, h, {"GetQueueAttributes"}) : c.b # a.res

\* C16 as claimed: a run that went through the reconciliation with every
\* remote call succeeding has issued exactly the calls of the
\* configuration and reports 0 failures.
C16_AllCallsSucceed ==
    \A r \in Runs :
        (Reconciled(r) /\ AllCallsSucceeded(r))
            => ExactCalls(r) /\ FailedLeaves(r) = 0 /\ exit_code[r] = 0

\* C16 amended: the same, for a run in which the access policy of the
\* queues can be had (region and account id both known, or the environment
\* is Local or Unknown).
C16_AllCallsSucceedResolvable ==
    \A r \in Runs :
        (Reconciled(r) /\ AllCallsSucceeded(r) /\ PolicyResolvable(r))
            => ExactCalls(r) /\ FailedLeaves(r) = 0 /\ exit_code[r] = 0

\* C16 witness: in Prod, with region and account id, a run over two queues
\* sharing a topic ended with every call answered, two subscriptions to two
\* different queue ARNs and exit code 0.
C16_Witness ==
    /\ env = "Prod" /\ BothKnown(1)
    /\ Reconciled(1) /\ AllCallsSucceeded(1)
    /\ Groups = {"orders", "billing"}
    /\ \E c \in CallsOf(1, "orders", {"Subscribe"}) :
          \E d \in CallsOf(1, "billing", {"Subscribe"}) : c.a = d.a /\ c.b # d.b
    /\ exit_code[1] = 0

\* Every task a run has spawned has ended and yielded its outcome.
AllYielded(r) ==
    \A g \in Groups :
        /\ gpc[r][g] = "done" /\ gout[r][g].st # "pending"
        /\ \A i \in Leaves(g) :
              lpc[r][g][i] # "unspawned" =>
                  lpc[r][g][i] = "done" /\ lout[r][g][i].st # "pending"

\* A run has spawned no task (it ended before the reconciliation).
NothingSpawned(r) == \A g \in Groups : gpc[r][g] = "unspawned"

\* The number of leaf tasks of a group that yielded a failure.
FailedIn(r, g) == Cardinality({i \in Leaves(g) : Failed(lout[r][g][i])})

\* A step yields an outcome at most once and counts every outcome once:
\* an outcome that is there never changes, nor does the exit code; the
\* step in which a group joins its leaf tasks finds them all ended and
\* yields the number of those that failed; the step in which main joins
\* the groups finds them all ended and reports the number of failed leaf
\* operations of the run (0 under force_success).
C17_StepAccounts ==
    \A r \in Runs :
        /\ exit_code[r] # NoExit => exit_code'[r] = exit_code[r]
        /\ (mpc[r] = "join" /\ mpc'[r] = "exited") =>
              /\ AllYielded(r)
              /\ exit_code'[r] = (IF force_success THEN 0 ELSE FailedLeaves(r))
        /\ \A g \in Groups :
              /\ gout[r][g].st # "pending" => gout'[r][g] = gout[r][g]
              /\ (gpc[r][g] = "join" /\ gpc'[r][g] = "done") =>
                    /\ \A i \in Leaves(g) : lpc[r][g][i] = "done"
                    /\ gout'[r][g] = Returned(FailedIn(r, g))
              /\ \A i \in Leaves(g) :
                    lout[r][g][i].st # "pending" => lout'[r][g][i] = lout[r][g][i]

\* C17: when every remote call returns, a run that has started ends, and
\* at its end every task it spawned has ended with its outcome; every
\* outcome is yielded once, enters the sum of its parent once, and the
\* result is reported only after all tasks have ended.
C17_EveryUnitCompletesOnce ==
    /\ \A r \in Runs : (mpc[r] = "parse") ~> (mpc[r] = "exited")
    /\ [](\A r \in Runs : mpc[r] = "exited" => (NothingSpawned(r) \/ AllYielded(r)))
    /\ [][C17_StepAccounts]_vars

\* C17 witness: a run has ended after two groups with a topic each, one of
\* whose leaf tasks failed, and reports one failure.
C17_Witness ==
    /\ mpc[1] = "exited" /\ AllYielded(1) /\ ~force_success
    /\ Groups = {"orders", "billing"}
    /\ \E g \in Groups : lout[1][g][1] = Panicked
    /\ \E g \in Groups : lout[1][g][1] = Returned(0)
    /\ exit_code[1] = 1

\* The operations that create or read; none deletes, unsubscribes or
\* changes an existing resource.
CreateOrReadOps ==
    {"GetCallerIdentity", "CreateTopic", "CreateQueue", "GetQueueUrl",
     "GetQueueAttributes", "Subscribe"}

\* The physical names the configuration gives to topics and to queues, and
\* the (topic, queue) pairs it subscribes.
ConfiguredTopics ==
    UNION {{PhysicalName(cfg[g][i], env) : i \in Leaves(g)} : g \in Groups}
ConfiguredQueues == {PhysicalName(g, env) : g \in Groups \ {"unsubscribed"}}
ConfiguredSubs ==
    UNION {{<<TopicArn(PhysicalName(cfg[g][i], env)), QueueArn(PhysicalName(g, env))>> :
               i \in Leaves(g)} : g \in Groups \ {"unsubscribed"}}

\* C18: the runs issue no operation other than creations and reads; what
\* the account held before them that the configuration does not name is
\* still there, unchanged; and whatever else the account holds is a topic,
\* a queue or a subscription the configuration names.
C18_OnlyConfiguredResources ==
    /\ \A c \in BagToSet(calls) : c.op \in CreateOrReadOps
    /\ ForeignTopics \subseteq topics
    /\ ForeignQueues \subseteq queues
    /\ ForeignSubs \subseteq subs
    /\ \A q \in queues : \A f \in ForeignQueues : q.name = f.name => q = f
    /\ \A x \in subs : \A f \in ForeignSubs : x.arn = f.arn => x = f
    /\ IF env = Unset
       THEN <<topics, queues, subs>> = <<ForeignTopics, ForeignQueues, ForeignSubs>>
       ELSE /\ topics \ ForeignTopics \subseteq ConfiguredTopics
            /\ \A q \in queues \ ForeignQueues : q.name \in ConfiguredQueues
            /\ \A x \in subs \ ForeignSubs :
                  /\ <<x.topic_arn, x.endpoint>> \in ConfiguredSubs
                  /\ x.protocol = "sqs"

\* C18 witness: a run has ended having created a queue, a topic and a
\* subscription beside those the account held before.
C18_Witness ==
    /\ Reconciled(1) /\ FailedLeaves(1) = 0
    /\ ForeignTopics \subseteq topics /\ topics # ForeignTopics
    /\ ForeignQueues \subseteq queues /\ queues # ForeignQueues
    /\ ForeignSubs \subseteq subs /\ subs # ForeignSubs

\* C19: when the configuration cannot be parsed or acquired, a run spawns
\* no task, issues no call (not even to the identity service), leaves the
\* account as it was and ends with exit code 2, with and without
\* force_success; and a run that ends with 2 without having spawned a task
\* for its groups is a run without a configuration.
C19_ConfigErrorExitsEarly ==
    \A r \in Runs :
        /\ ~cfg_ok =>
              /\ mpc[r] \in {"idle", "parse", "exited"}
              /\ mpc[r] = "exited" => exit_code[r] = 2
              /\ NothingSpawned(r)
              /\ \A g \in Groups : \A i \in Leaves(g) : lpc[r][g][i] = "unspawned"
              /\ RunCalls(r) = {}
              /\ <<topics, queues, subs>> = <<ForeignTopics, ForeignQueues, ForeignSubs>>
        /\ (cfg_ok /\ mpc[r] = "exited" /\ Groups # {} /\ NothingSpawned(r))
              => exit_code[r] \notin {0, 2}

\* C19 witness: with force_success set and a configuration of two queues
\* that cannot be read, the run has ended with 2.
C19_Witness ==
    /\ ~cfg_ok /\ force_success
    /\ Groups = {"orders", "billing"}
    /\ mpc[1] = "exited" /\ exit_code[1] = 2

\* A text spells a word in some letter case.
Spells(text, small, capital) ==
    /\ Len(text) = Len(small)
    /\ \A k \in 1..Len(small) :
          text[k] \in {SubSeq(small, k, k), SubSeq(capital, k, k)}

\* The alias table: the aliases of the specification, and qe, which the
\* code recognizes as well.
AliasTable ==
    { <<"l", "L", "Local">>, <<"local", "LOCAL", "Local">>,
      <<"q", "Q", "QA">>, <<"qa", "QA", "QA">>, <<"qe", "QE", "QA">>,
      <<"d", "D", "Dev">>, <<"dev", "DEV", "Dev">>,
      <<"development", "DEVELOPMENT", "Dev">>,
      <<"p", "P", "Prod">>, <<"prod", "PROD", "Prod">>,
      <<"production", "PRODUCTION", "Prod">> }

\* C20: the resolution of the environment is total and ignores the letter
\* case: a string that spells an alias in any letter case resolves to the
\* environment of the alias (l, local: Local; q, qa: QA; d, dev,
\* development: Dev; p, prod, production: Prod), no string and every string
\* that spells no alias resolve to Unknown, and the result is always one of
\* the five environments.
C20_ResolutionTotalCaseInsensitive ==
    mpc[1] = "exited" =>
        /\ env \in EnvNames
        /\ \A a \in AliasTable :
              (env_name # None /\ Spells(env_name.val, a[1], a[2])) => env = a[3]
        /\ (env_name = None
               \/ \A a \in AliasTable : ~Spells(env_name.val, a[1], a[2]))
              => env = "Unknown"

\* C21: when ensure_queue of a group fails, the group spawns no subscription
\* task and issues no CreateTopic and no Subscribe for any of its topics,
\* and its task yields exactly 1 to the sum of main, whatever the number of
\* topics it lists.
C21_QueueFailureCountsOnce ==
    \A r \in Runs : \A g \in Groups :
        QueueFailed(r, g) =>
            /\ CallsOf(r, g, {"CreateTopic", "Subscribe"}) = {}
            /\ \A i \in Leaves(g) : lpc[r][g][i] = "unspawned" /\ lout[r][g][i] = Pending
            /\ gout[r][g] = Returned(1)
            /\ JoinValue(gout[r][g]) = 1

\* C21 witness: CreateQueue of a group listing two topics failed, the run
\* has ended and its exit code is the 1 of that group.
C21_Witness ==
    \E g \in Groups :
        /\ QueueFailed(1, g)
        /\ Len(cfg[g]) = 2
        /\ \E c \in CallsOf(1, g, {"CreateQueue"}) : c.res = "err"
        /\ mpc[1] = "exited"
        /\ exit_code[1] = 1

\* The calls of one operation a leaf issued in a run.
LeafCallsOf(r, g, i, op) == {c \in CallsOf(r, g, {op}) : c.i = i}

\* C22: a Subscribe of a (queue, topic) pair is issued only after the
\* leaf's CreateTopic has returned the ARN of that topic and after the
\* group's GetQueueAttributes has returned the queue's ARN, and it carries
\* both; when the CreateTopic of a subscription leaf fails or returns no
\* ARN, the leaf issues no Subscribe and its task counts as exactly one
\* failure.
C22_SubscribeAfterTopicAndQueue ==
    LET all == BagToSet(calls)
        subscribes == {c \in all : c.op = "Subscribe"}
        creations == {c \in all : c.op = "CreateTopic" /\ c.g # "unsubscribed"}
    IN /\ \A s \in subscribes :
             /\ s.g # "unsubscribed"
             /\ s.a = TopicArn(TopicName(cfg[s.g][s.i], env))
             /\ \E t \in creations :
                   /\ t.run = s.run /\ t.g = s.g /\ t.i = s.i
                   /\ t.res = s.a /\ t.a = TopicName(cfg[s.g][s.i], env)
             /\ s.b # Unset
             /\ s.b = qarn[s.run][s.g]
             /\ \E a \in all :
                   a.op = "GetQueueAttributes" /\ a.run = s.run /\ a.g = s.g /\ a.res = s.b
       /\ \A t \in creations :
             ~Answered(t) =>
                 /\ ~\E s \in subscribes : s.run = t.run /\ s.g = t.g /\ s.i = t.i
                 /\ lpc[t.run][t.g][t.i] = "done"
                 /\ Failed(lout[t.run][t.g][t.i])
                 /\ JoinValue(lout[t.run][t.g][t.i]) = 1

\* C22 witness: in one group a leaf's CreateTopic failed and the leaf ended
\* without a Subscribe, its sibling subscribed the queue to its topic, and
\* the run ended with the one failure as its exit code.
C22_Witness ==
    \E g \in Groups : \E i \in Leaves(g) : \E j \in Leaves(g) :
        /\ g # "unsubscribed"
        /\ \E t \in LeafCallsOf(1, g, i, "CreateTopic") : t.res = "err"
        /\ LeafCallsOf(1, g, i, "Subscribe") = {}
        /\ \E s \in LeafCallsOf(1, g, j, "Subscribe") : Answered(s)
        /\ mpc[1] = "exited"
        /\ exit_code[1] = 1

\* C23: no call is repeated within a run.  Each leaf issues CreateTopic at
\* most once and Subscribe at most once, each group issues CreateQueue,
\* GetQueueUrl and GetQueueAttributes at most once each, also after a
\* failure, and GetQueueUrl is issued only after the group's CreateQueue
\* failed with "queue name already exists".
C23_NoRetry ==
    LET all == BagToSet(calls) IN
    /\ BagCardinality(calls) = Cardinality(all)
    /\ Cardinality({<<c.run, c.g, c.i, c.op>> : c \in all}) = Cardinality(all)
    /\ \A c \in all :
          c.op = "GetQueueUrl" =>
              \E d \in all : /\ d.op = "CreateQueue" /\ d.run = c.run /\ d.g = c.g
                              /\ d.res = "ServiceError:QueueNameExists"

\* C23 witness: a run has ended in which a queue was adopted through
\* GetQueueUrl, a Subscribe failed, and the failed call was issued once.
C23_Witness ==
    \E r \in Runs : \E g \in Groups : \E i \in Leaves(g) :
        /\ mpc[r] = "exited"
        /\ Times(CallsOf(r, g, {"GetQueueUrl"})) = 1
        /\ \E s \in LeafCallsOf(r, g, i, "Subscribe") : s.res = "err"
        /\ Times(LeafCallsOf(r, g, i, "Subscribe")) = 1
        /\ Failed(lout[r][g][i])

\* The calls of a group that were answered with success but without the
\* field the answer should carry.
Fieldless(r, g, op) == {c \in CallsOf(r, g, {op}) : c.res = "nofield"}

\* ensure_queue of a group failed and nothing of ops was issued by the group.
QueueFailedWithout(r, g, ops) ==
    /\ QueueFailed(r, g)
    /\ gout[r][g] = Returned(1)
    /\ CallsOf(r, g, ops \cup {"CreateTopic", "Subscribe"}) = {}
    /\ \A i \in Leaves(g) : lpc[r][g][i] = "unspawned"

\* What the queue calls are followed by in ensure_queue.
QueueOpsAfter(op) ==
    CASE op = "CreateQueue" -> {"GetQueueUrl", "GetQueueAttributes"}
      [] op = "GetQueueUrl" -> {"GetQueueAttributes"}
      [] op = "GetQueueAttributes" -> {}

\* C24: when a call reports success without the field of its contract (the
\* topic ARN of CreateTopic, the queue URL of CreateQueue or GetQueueUrl,
\* the queue ARN of GetQueueAttributes, the subscription ARN of Subscribe),
\* the leaf or the ensure_queue that issued it fails, the steps that would
\* follow it are not executed, and the call is not issued again.
C24_MissingFieldIsFatal ==
    \A c \in {x \in BagToSet(calls) : x.res = "nofield" /\ x.op # "GetCallerIdentity"} :
        IF c.op \in QueueOps
        THEN /\ Times(CallsOf(c.run, c.g, {c.op})) = 1
             /\ QueueFailedWithout(c.run, c.g, QueueOpsAfter(c.op))
        ELSE /\ Times(LeafCallsOf(c.run, c.g, c.i, c.op)) = 1
             /\ lpc[c.run][c.g][c.i] = "done"
             /\ Failed(lout[c.run][c.g][c.i])
             /\ JoinValue(lout[c.run][c.g][c.i]) = 1
             /\ c.op = "CreateTopic" =>
                   /\ LeafCallsOf(c.run, c.g, c.i, "Subscribe") = {}
                   /\ tarn[c.run][c.g][c.i] = Unset
             /\ c.op = "Subscribe" => sarn[c.run][c.g][c.i] = Unset

\* C24 witness: CreateQueue made the queue and answered without its URL;
\* the group, which lists two topics, failed and the run has ended with 1.
C24_Witness ==
    \E g \in Groups :
        /\ Fieldless(1, g, "CreateQueue") # {}
        /\ QueueExists(QueueName(g, env))
        /\ Len(cfg[g]) = 2
        /\ mpc[1] = "exited"
        /\ exit_code[1] = 1

\* A name ends with a text.
EndsWith(name, text) ==
    Len(name) >= Len(text) /\ SubSeq(name, Len(name) - Len(text) + 1, Len(name)) = text

\* ArnLike of a topic against an aws:SourceArn pattern that ends in
\* ":*-<suffix>": the name of the topic ends with "-<suffix>".
MatchesSourceArn(topic, pattern) == EndsWith(topic, "-" \o PatternSuffix(pattern))

\* The CreateQueue calls of a run that carry a policy document.
PolicedQueues(r) == {c \in RunCalls(r) : c.op = "CreateQueue" /\ c.b # ""}

\* C25: in every environment, Unknown included, the name of every topic a
\* run creates matches the aws:SourceArn pattern of the policy of every
\* queue the run creates with a policy.
C25_TopicsMatchSourceArn ==
    \A r \in Runs :
        \A t \in {c \in RunCalls(r) : c.op = "CreateTopic"} :
            \A q \in PolicedQueues(r) :
                \A pattern \in JsonStrings(q.b, "aws:SourceArn") :
                    MatchesSourceArn(t.a, pattern)

\* No remote call of a run failed for a reason other than "queue name
\* already exists", and none was answered without its field.
NoOtherFailure(r) ==
    \A c \in RunCalls(r) : c.res \notin {"err", "nofield", "ServiceError:QueueDoesNotExist"}

\* Both processes went through the reconciliation to their end.
BothFinished ==
    \A r \in Runs : Reconciled(r) /\ NoOtherFailure(r)

\* Both processes report 0 failures, and the account holds what it held
\* before and exactly one queue per queue key and one subscription per
\* listed topic of a queue key.
ConvergedOnce ==
    /\ \A r \in Runs : FailedLeaves(r) = 0 /\ exit_code[r] = 0
    /\ \A g \in Groups \ {"unsubscribed"} :
          /\ Cardinality({q \in queues : q.name = QueueName(g, env)}) = 1
          /\ \A i \in Leaves(g) :
                Cardinality({x \in subs :
                    /\ x.topic_arn = TopicArn(TopicName(cfg[g][i], env))
                    /\ x.endpoint = QueueArn(QueueName(g, env))}) = 1
    /\ Cardinality(queues) = Cardinality(ForeignQueues) + Cardinality(ConfiguredQueues)
    /\ Cardinality(subs) = Cardinality(ForeignSubs) + Cardinality(ConfiguredSubs)

\* C26 as claimed: two processes on the same configuration and environment,
\* their remote calls interleaved in any way and none failing for a reason
\* other than "queue name already exists", both end with 0 failures, and
\* the account ends with exactly one queue per queue key and one
\* subscription per (queue, topic) pair.
C26_ConcurrentRunsConverge == BothFinished => ConvergedOnce

\* C26 amended: the same, when the access policy of the queues can be had
\* (region and account id both known, or the environment is Local or
\* Unknown).
C26_ConcurrentRunsConvergeResolvable ==
    (BothFinished /\ \A r \in Runs : PolicyResolvable(r)) => ConvergedOnce

\* C26 witness: in Prod, with region and account id, both processes ended
\* with 0 failures after each had found a queue the other had created
\* first.
C26_Witness ==
    /\ env = "Prod" /\ BothKnown(1) /\ BothKnown(2)
    /\ BothFinished
    /\ Groups = {"orders", "billing"}
    /\ \E c \in CallsOf(1, "orders", {"CreateQueue"}) : c.res = "ServiceError:QueueNameExists"
    /\ \E c \in CallsOf(2, "billing", {"CreateQueue"}) : c.res = "ServiceError:QueueNameExists"
    /\ \A r \in Runs : exit_code[r] = 0

\* A step that writes the account id of a run's argument cell, or takes or
\* drops the exclusive borrow of the cell, is a step of main between the
\* answer of the identity call and the spawning, taken while no task of
\* the run is spawned and no call of a task was issued.
C27_WriteBeforeSpawn ==
    \A r \in Runs :
        (account_cell'[r] # account_cell[r] \/ args_borrow'[r] # args_borrow[r]) =>
            /\ mpc[r] \in {"sts", "written"}
            /\ account_cell'[r] # account_cell[r] =>
                  /\ mpc[r] = "sts" /\ args_borrow'[r] = "mut"
                  /\ aws_account_arg = None /\ account_cell[r] = None
            /\ \A g \in Groups :
                  gpc[r][g] = "unspawned" /\ \A i \in Leaves(g) : lpc[r][g][i] = "unspawned"
            /\ \A c \in RunCalls(r) : c.op = "GetCallerIdentity"

\* The step of a group task that runs create_queue up to CreateQueue (the
\* task leaves its start in a group that is not the sentinel) finds the
\* cell not exclusively borrowed: try_borrow yields the arguments.
C27_BorrowSucceeds ==
    \A r \in Runs : \A g \in Groups :
        (~IsSentinel(g) /\ gpc[r][g] = "started" /\ gpc'[r][g] # "started") =>
            /\ args_borrow[r] = "free"
            /\ ~TryBorrowFails(r)

\* While the cell is exclusively borrowed no task of the run exists.
C27_NoTaskWhileBorrowed ==
    \A r \in Runs :
        args_borrow[r] = "mut" =>
            /\ mpc[r] = "written"
            /\ \A g \in Groups : gpc[r][g] = "unspawned"

\* Every ensure_queue of a run was handed the region of the command line
\* and the account id the cell holds once main has written it: its
\* CreateQueue carries the policy built from them, and with both known
\* none went without a CreateQueue or with the empty policy of the
\* fallback.
C27_SameArgsSeen ==
    \A r \in Runs : \A g \in Groups \ {"unsubscribed"} :
        /\ \A c \in CallsOf(r, g, {"CreateQueue"}) :
              c.b = QueuePolicy(g, env, aws_region, account_cell[r]).policy
        /\ (GroupActed(r, g) /\ BothKnown(r)) =>
              /\ Times(CallsOf(r, g, {"CreateQueue"})) = 1
              /\ \A c \in CallsOf(r, g, {"CreateQueue"}) : c.b # ""

\* C27: the only write to the shared argument cell, the account id filled
\* in from the identity service, happens before any provisioning task is
\* spawned, and so does the exclusive borrow it is made through; no
\* ensure_queue finds the cell exclusively borrowed and falls back to
\* (absent, absent), and every ensure_queue of a run sees the same region
\* and account id.
C27_ArgsCellStable ==
    /\ [][C27_WriteBeforeSpawn]_vars
    /\ [][C27_BorrowSucceeds]_vars
    /\ []C27_NoTaskWhileBorrowed
    /\ []C27_SameArgsSeen

\* C27 witness: the account id was not given and was filled in from the
\* identity service through an exclusive borrow that has been dropped; two
\* groups have since created their queues, both with a policy naming that
\* account.
C27_Witness ==
    /\ aws_account_arg = None
    /\ account_cell[1] = Some("123456789012")
    /\ args_borrow[1] = "free"
    /\ Groups = {"orders", "billing"}
    /\ \A g \in Groups :
          \E c \in CallsOf(1, g, {"CreateQueue"}) :
              /\ c.b # ""
              /\ JsonStrings(c.b, "AWS") = {"arn:aws:iam::123456789012:root"}

====
